---- MODULE Spec2Model ----
(***************************************************************************)
(* A model of the Paygent pipeline engine:                                 *)
(*   - SpendingTracker (services/spending.ts), the Spend Ledger;           *)
(*   - TaskOrchestrator.executePipeline / executeStep (agent/orchestrator) *)
(*     driven by the API server's POST /api/pipeline/execute handler and   *)
(*     its OrchestratorEvents callbacks (api/server.ts);                   *)
(*   - the stand-alone server's POST /api/pipeline/execute step loop over  *)
(*     Paygent.executeTask (server.ts, agent/index.ts).                    *)
(* Amounts are bigint in the source (no overflow): plain integers here.    *)
(* Time is the local calendar day: `now` is the day number, a record's     *)
(* timestamp is the day it was made, and "today" (midnight of the current  *)
(* day) is `now`, so `r.timestamp >= today` is `r.day >= now`.             *)
(* Messages are sequences of text fragments, so that wrapping a message    *)
(* in a prefix is concatenation and can be told from the message itself.   *)
(***************************************************************************)
EXTENDS Integers, Sequences, FiniteSets, TLC

\* ---------------------------------------------------------------- bounds
MaxRecords == 2
MaxRecorded == 3
MaxSteps == 2
MaxRuns == 2
MaxBroadcasts == 3

\* Inputs drawn by the actions.
Assets == {"STX", "sBTC", "USDCx"}
Amounts == {1, 2}
TaskLimits == {2, 3}
DayLimits == {2, 4}
\* The configured ceilings (config.maxSpendPerTask, config.maxSpendPerDay).
ConfigTaskLimits == {3}
ConfigDayLimits == {2}
\* options.maxBudget of executeTask as the stand-alone server derives it
\* from req.body.budget: absent, 0n (a budget under one micro-STX, floored),
\* or one that leaves out the dearer service.
Budgets == {<<>>, <<0>>, <<1>>}
\* Local days: a day and the day after it.
Days == {0, 1}

\* --------------------------------------------------------------- helpers
RECURSIVE SumAmounts(_)
SumAmounts(rs) ==
  IF rs = <<>> THEN 0 ELSE Head(rs).amount + SumAmounts(Tail(rs))

\* ------------------------------------------------------ SpendingTracker
\* A tracker is [records, maxPerTask, maxPerDay]; a record is
\* [day, amount, asset] (serviceId, serviceName and txId are carried along
\* by the source and read by none of the operations below).
NewTracker(maxPerTask, maxPerDay) ==
  [records |-> <<>>, maxPerTask |-> maxPerTask, maxPerDay |-> maxPerDay]

\* recordPayment refusing the record that would take the recorded total
\* above maxPerDay.
recordPayment_WithinCeiling(t, amount, asset, today) ==
  IF SumAmounts(t.records) + amount > t.maxPerDay
  THEN t
  ELSE [t EXCEPT !.records =
          Append(@, [day |-> today, amount |-> amount, asset |-> asset])]

\* recordPayment writing the record twice.
recordPayment_Twice(t, amount, asset, today) ==
  [t EXCEPT !.records =
     Append(Append(@, [day |-> today, amount |-> amount, asset |-> asset]),
            [day |-> today, amount |-> amount, asset |-> asset])]

recordPayment(t, amount, asset, today) ==
  [t EXCEPT !.records =
     Append(@, [day |-> today, amount |-> amount, asset |-> asset])]

\* The filter of getTodaySpent taking the records of every asset.
IsToday_AnyAsset(today, r) == r.day >= today

\* The filter of getTodaySpent taking the STX records of every day.
IsTodaySTX_AnyDay(today, r) == r.asset = "STX"

IsTodaySTX(today, r) == r.day >= today /\ r.asset = "STX"

\* getTodaySpent finding no record of today.
getTodaySpent_Nothing(t, today) == 0

getTodaySpent(t, today) ==
  LET keep(r) == IsTodaySTX(today, r) IN SumAmounts(SelectSeq(t.records, keep))

ReasonPerTask == <<"exceeds per-task limit">>
ReasonPerDay == <<"Would exceed daily limit">>

\* canSpend with the daily check made on the amount alone.
canSpend_ForgetsTodaySpent(t, amount, today) ==
  IF amount > t.maxPerTask
  THEN [allowed |-> FALSE, reason |-> ReasonPerTask]
  ELSE IF amount > t.maxPerDay
       THEN [allowed |-> FALSE, reason |-> ReasonPerDay]
       ELSE [allowed |-> TRUE, reason |-> <<>>]

canSpend(t, amount, today) ==
  IF amount > t.maxPerTask
  THEN [allowed |-> FALSE, reason |-> ReasonPerTask]
  ELSE IF getTodaySpent(t, today) + amount > t.maxPerDay
       THEN [allowed |-> FALSE, reason |-> ReasonPerDay]
       ELSE [allowed |-> TRUE, reason |-> <<>>]

\* The all-time total summed over every asset.
AllTimeTotal_AnyAsset(t) == SumAmounts(t.records)

AllTimeTotal(t) ==
  LET keep(r) == r.asset = "STX" IN SumAmounts(SelectSeq(t.records, keep))

\* getSummary with remainingToday as the plain difference.
getSummary_PlainDifference(t, today) ==
  LET isToday(r) == r.day >= today
      todayTotal == getTodaySpent(t, today)
  IN [today |-> [total |-> todayTotal,
                 transactions |-> Len(SelectSeq(t.records, isToday))],
      allTime |-> [total |-> AllTimeTotal(t),
                   transactions |-> Len(t.records)],
      limits |-> [perTask |-> t.maxPerTask,
                  perDay |-> t.maxPerDay,
                  remainingToday |-> t.maxPerDay - todayTotal]]

getSummary(t, today) ==
  LET isToday(r) == r.day >= today
      todayTotal == getTodaySpent(t, today)
  IN [today |-> [total |-> todayTotal,
                 transactions |-> Len(SelectSeq(t.records, isToday))],
      allTime |-> [total |-> AllTimeTotal(t),
                   transactions |-> Len(t.records)],
      limits |-> [perTask |-> t.maxPerTask,
                  perDay |-> t.maxPerDay,
                  remainingToday |->
                    IF t.maxPerDay > todayTotal
                    THEN t.maxPerDay - todayTotal ELSE 0]]

\* An optional argument is <<>> (undefined) or <<v>>.
setLimits(t, maxPerTask, maxPerDay) ==
  [t EXCEPT
     !.maxPerTask = IF maxPerTask # <<>> THEN maxPerTask[1] ELSE @,
     !.maxPerDay = IF maxPerDay # <<>> THEN maxPerDay[1] ELSE @]

resetDaily(t, today) ==
  LET keep(r) == r.day < today IN [t EXCEPT !.records = SelectSeq(@, keep)]

importRecords(t, recs) == [t EXCEPT !.records = recs]

\* ------------------------------------------------------------ catalog
\* The services discovery returns: [id, amount, asset] (price.amount and
\* price.asset); the other fields are not read by the pipeline.
Catalog ==
  {[id |-> "s1", amount |-> 1, asset |-> "STX"],
   [id |-> "s2", amount |-> 2, asset |-> "sBTC"]}

\* Service ids a plan step may name: the planner's AI tier copies the id
\* from the model's answer, so it may be an id the catalog does not hold.
PlanServiceIds == {"s1", "s2", "gone"}

FindService(services, id) == {s \in services : s.id = id}

\* A step's estimatedCost left at 0 whatever the service.
EstimatedCost_Free(services, id) == 0

\* createAIPlan: a step's estimatedCost is the bound service's price, or 0
\* when the id is unknown; estimatedTotalCost is their sum.
EstimatedCost(services, id) ==
  IF FindService(services, id) = {} THEN 0
  ELSE (CHOOSE s \in FindService(services, id) : TRUE).amount

RECURSIVE SumCosts(_)
SumCosts(steps) ==
  IF steps = <<>> THEN 0 ELSE Head(steps).estimatedCost + SumCosts(Tail(steps))

MakePlan(services, kinds) ==
  LET steps == [k \in DOMAIN kinds |->
                  [serviceId |-> kinds[k].serviceId,
                   required |-> kinds[k].required,
                   estimatedCost |-> EstimatedCost(services, kinds[k].serviceId)]]
  IN [steps |-> steps, estimatedTotalCost |-> SumCosts(steps)]

StepKinds == [serviceId : PlanServiceIds, required : BOOLEAN]

\* The plans createPlan can return against `services`.
Plans(services) ==
  {MakePlan(services, kinds) :
     kinds \in UNION {[1..n -> StepKinds] : n \in 1..MaxSteps}}

\* createPlan returned null, or a plan without steps.
NoPlan == [steps |-> <<>>, estimatedTotalCost |-> 0]

\* --------------------------------------------------- payment and results
\* A payload is <<>> (absent or falsy) or <<n>>, the payload of step n.
NoData == <<>>
NoError == <<>>

\* What PaymentService.executePayment resolves to for step n.
PaymentOutcomes(n) ==
  {[success |-> TRUE, error |-> NoError, data |-> d] : d \in {NoData, <<n>>}}
  \cup
  {[success |-> FALSE, error |-> e, data |-> NoData] :
     e \in {NoError, <<"Insufficient balance">>}}

\* What PaymentService.executePayment rejects with when the code ahead of
\* its try block throws (BigInt(service.price.amount) on a price that is
\* not an integer): the error, whose message is `error`.
PaymentThrows ==
  {[success |-> FALSE, error |-> <<"Cannot convert 0.5 to a BigInt">>,
    data |-> NoData]}

\* executeStep: `payment.error || 'Payment failed'`.
PaymentErrorMessage(payment) ==
  IF payment.error # NoError THEN payment.error ELSE <<"Payment failed">>

ServiceNotFound(id) == <<"Service not found: ", id>>

RequiredStepFailed_Bare(msg) == msg

\* executePipeline, the message of the error that aborts the run.
RequiredStepFailed(msg) == <<"Required step failed: ">> \o msg

BudgetExceeded(reason) == <<"Budget exceeded: ">> \o reason

\* The PipelineResult of the outer catch block.
FailureResult(msg) ==
  [success |-> FALSE, error |-> msg, hasPlan |-> FALSE,
   stepResults |-> <<>>, totalCost |-> 0, finalOutput |-> NoData]

\* compileFinalOutput without an output template: the payload of the last
\* result that succeeded with a payload, else null.
compileFinalOutput(stepResults) ==
  LET ok(r) == r.success /\ r.data # NoData
      good == SelectSeq(stepResults, ok)
  IN IF good # <<>> THEN good[Len(good)].data ELSE NoData

\* The result of a complete run reporting no cost.
SuccessResult_NoCost(stepResults, spent) ==
  [success |-> TRUE, error |-> NoError, hasPlan |-> TRUE,
   stepResults |-> stepResults, totalCost |-> 0,
   finalOutput |-> compileFinalOutput(stepResults)]

SuccessResult(stepResults, spent) ==
  [success |-> TRUE, error |-> NoError, hasPlan |-> TRUE,
   stepResults |-> stepResults, totalCost |-> spent,
   finalOutput |-> compileFinalOutput(stepResults)]

\* ----------------------------------------- API server event handlers
\* The handlers read and write the shared currentPipelineId/currentSteps,
\* activePipelines and the broadcast stream; each returns the three it
\* writes. currentPipelineId 0 is null. Step numbers count from 1.
\* An event is [event, pipelineId, stepIndex, error]: stepIndex is 0 on
\* the events that carry none, error is NoError on those that carry none.
BroadcastError(w, event, pid, index, error) ==
  Append(w, [event |-> event, pipelineId |-> pid, stepIndex |-> index,
             error |-> error])

Broadcast(w, event, pid, index) == BroadcastError(w, event, pid, index, <<>>)

ApiState(cs, w, ap) == [currentSteps |-> cs, wire |-> w, activePipelines |-> ap]

\* An activePipelines entry is the status object of a run. Where one run
\* is in flight at a time it is carried as [status] alone; where several
\* are, as [status, steps, totalCostSTX, live], live saying that `steps` is
\* the currentSteps array itself and not a copy of it, so that writes into
\* the array show in it.
PipelineStatus(status, steps, cost, live) ==
  [status |-> status, steps |-> steps, totalCostSTX |-> cost, live |-> live]

\* The entry of pipeline id exists and carries its steps.
CarriesSteps(ap, id) == id \in DOMAIN ap /\ "steps" \in DOMAIN ap[id]

RECURSIVE SumCostSTX(_)
SumCostSTX(cs) ==
  IF cs = <<>> THEN 0 ELSE Head(cs).costSTX + SumCostSTX(Tail(cs))

\* `currentSteps = ...`: the variable is bound to a new array; the status
\* objects that held the old one keep it.
Rebound(ap) ==
  [id \in DOMAIN ap |-> IF CarriesSteps(ap, id)
                        THEN [ap[id] EXCEPT !.live = FALSE]
                        ELSE ap[id]]

\* A write into the currentSteps array, seen by every status object that
\* holds the array.
Written(ap, cs) ==
  [id \in DOMAIN ap |-> IF CarriesSteps(ap, id) /\ ap[id].live
                        THEN [ap[id] EXCEPT !.steps = cs]
                        ELSE ap[id]]

\* `pipeline.status.steps = [...currentSteps]` for the current pipeline.
CopySteps(ap, cpid, cs) ==
  IF CarriesSteps(ap, cpid)
  THEN [ap EXCEPT ![cpid].steps = cs, ![cpid].live = FALSE]
  ELSE ap

\* `pipeline.status.steps = currentSteps` for the current pipeline.
HoldSteps(ap, cpid, cs) ==
  IF CarriesSteps(ap, cpid)
  THEN [ap EXCEPT ![cpid].steps = cs, ![cpid].live = TRUE]
  ELSE ap

onPlanCreated(cpid, h, p) ==
  IF cpid # 0
  THEN LET cs == [k \in 1..Len(p.steps) |->
                    [id |-> k, status |-> "pending",
                     costSTX |-> p.steps[k].estimatedCost]]
           ap == HoldSteps(Rebound(h.activePipelines), cpid, cs)
       IN ApiState(
            cs,
            Broadcast(h.wire, "pipeline:planned", cpid, 0),
            IF cpid \in DOMAIN ap
            THEN [ap EXCEPT ![cpid].status = "running"]
            ELSE ap)
  ELSE h

onStepStart(cpid, h, index) ==
  IF cpid # 0 /\ index \in DOMAIN h.currentSteps
  THEN LET cs == [h.currentSteps EXCEPT ![index].status = "running"]
       IN ApiState(
            cs,
            Broadcast(h.wire, "pipeline:step:started", cpid, index),
            CopySteps(Written(h.activePipelines, cs), cpid, cs))
  ELSE h

\* findIndex(s => s.id === step.id): a step's id is its number.
FindIndex(cs, id) == IF id \in DOMAIN cs THEN id ELSE 0

onStepComplete(cpid, h, stepId, cost) ==
  LET index == FindIndex(h.currentSteps, stepId) IN
  IF cpid # 0 /\ index > 0
  THEN LET cs == [h.currentSteps EXCEPT
                    ![index].status = "complete",
                    ![index].costSTX = IF cost # 0 THEN cost ELSE @]
           ap == CopySteps(Written(h.activePipelines, cs), cpid, cs)
       IN ApiState(
            cs,
            Broadcast(h.wire, "pipeline:step:completed", cpid, index),
            IF CarriesSteps(ap, cpid)
            THEN [ap EXCEPT ![cpid].totalCostSTX = SumCostSTX(cs)]
            ELSE ap)
  ELSE h

onStepError(cpid, h, stepId) ==
  LET index == FindIndex(h.currentSteps, stepId) IN
  IF cpid # 0 /\ index > 0
  THEN LET cs == [h.currentSteps EXCEPT ![index].status = "failed"]
       IN ApiState(
            cs,
            Broadcast(h.wire, "pipeline:step:failed", cpid, index),
            CopySteps(Written(h.activePipelines, cs), cpid, cs))
  ELSE h

VARIABLES
  now,          \* the current local day
  spending,     \* Paygent.spending
  recorded,     \* sum of the STX amounts passed to spending.recordPayment
  replaced,     \* resetDaily or importRecords has been called on spending
  orchSpending, \* TaskOrchestrator.spending
  memory,       \* the pipeline ids handed to memory.savePipeline, in call order
  runCount,     \* requests accepted so far; the id of the latest run
  pc,           \* where the run in flight is
  allServices,  \* executePipeline: allServices
  plan,         \* executePipeline: plan
  canAfford,    \* executePipeline: <<>> or <<c>>, c the canSpend answer
  i,            \* executePipeline: the loop index, counted from 1
  results,      \* context.results
  variables,    \* context.variables
  totalSpent,   \* context.totalSpent
  payment,      \* executeStep: <<>> or <<p>>, p what executePayment resolved to
  result,       \* <<>> or <<r>>, r the PipelineResult executePipeline returned
  emitted,      \* OrchestratorEvents callbacks invoked by this run, in order
  payCalls,     \* steps of this run handed to PaymentService.executePayment
  currentPipelineId,  \* api/server.ts
  currentSteps,       \* api/server.ts
  activePipelines,    \* api/server.ts: pipelineId -> [status]
  wire,         \* events broadcast since the latest request, in order
  server,       \* which server is deployed: "api" or "standalone"
  config,       \* config.maxSpendPerTask, config.maxSpendPerDay
  budget,       \* executeTask: options.maxBudget, <<>> or <<b>>
  stepCount,    \* stand-alone server: plan.steps.length
  totalCost,    \* stand-alone server: totalCost
  selection,    \* Paygent.executeTask: <<>> or <<service>>, the selected one
  pipelineHistory,  \* stand-alone server: pipelineHistory, latest first
  planCall,     \* TaskPlanner.createPlan: <<>> or <<c>>, c the call's arguments
  planReturn,   \* TaskPlanner.createPlan: <<>> or <<p>>, p what it returned
  inserted,     \* entries handed to addToHistory by the history calls below
  historyRead,  \* GET /api/history: <<>> or <<h>>, h the latest response
  template,     \* executeStep: <<>> or <<t>>, t the step's requestData
  requestData,  \* executeStep: <<>> or <<b>>, b the body handed to executePayment
  lastOutput,   \* <<>> or <<d>>, d the payload of the latest step that succeeded
  clock,        \* Date.now(), in milliseconds
  runs,         \* the executePipeline calls in flight or settled, in request order
  lifecycle,    \* the lifecycle events of the latest step, with their broadcast
  clients,      \* the set of registered WebSocket connections
  sockets,      \* each connection's readyState and what was sent to it
  broadcasts,   \* the messages handed to broadcast(), in call order
  ticks,        \* ServiceDiscovery: Date.now(), in steps of TickMs
  cache,        \* ServiceDiscovery.cache.get('all'): <<>> or <<entry>>
  discovered,   \* getAllServices: <<>> or <<d>>, d the latest call and its return
  ws,           \* PaygentAPI.ws: 0 (null) or the index of a WebSocket
  connections,  \* the WebSockets the client created: each one's readyState
  timers,       \* the pending setTimeout callbacks of onclose
  wanted        \* the application's latest call was connectWebSocket()

ledgerVars == <<spending, recorded, replaced>>
contextVars == <<results, variables, totalSpent>>
localVars == <<canAfford, payment>>
runVars ==
  <<orchSpending, memory, runCount, pc, allServices, plan, i, contextVars,
    localVars, result, emitted, payCalls>>
apiVars == <<currentPipelineId, currentSteps, activePipelines, wire>>
srvVars ==
  <<server, config, budget, stepCount, totalCost, selection, pipelineHistory>>
plannerVars == <<planCall, planReturn>>
\* What the pipeline runs and the ledger operations above leave alone.
historyVars == <<inserted, historyRead>>
threadVars == <<template, requestData, lastOutput>>
concVars == <<clock, runs, lifecycle>>
subVars == <<clients, sockets, broadcasts>>
discVars == <<ticks, cache, discovered>>
clientVars == <<ws, connections, timers, wanted>>
extVars ==
  <<plannerVars, historyVars, threadVars, concVars, subVars, discVars,
    clientVars>>
vars == <<now, ledgerVars, runVars, apiVars, srvVars, extVars>>

\* The state after construction: both trackers are built from the same
\* configured ceilings, nothing has run. Either server may be the one
\* deployed.
\* The WebSocket connections made to the server.
Connections == {1, 2}

\* A connection that has not been made yet.
NewSocket ==
  [readyState |-> "CONNECTING", received |-> <<>>, joined |-> -1, left |-> -1]

InitWith(pt, pd) ==
  /\ now = 0
  /\ server \in {"api", "standalone"}
  /\ config = [maxSpendPerTask |-> pt, maxSpendPerDay |-> pd]
  /\ budget = <<>>
  /\ stepCount = 0
  /\ totalCost = 0
  /\ selection = <<>>
  /\ pipelineHistory = <<>>
  /\ planCall = <<>>
  /\ planReturn = <<>>
  /\ inserted = 0
  /\ historyRead = <<>>
  /\ template = <<>>
  /\ requestData = <<>>
  /\ lastOutput = <<>>
  /\ clock = 1
  /\ runs = <<>>
  /\ lifecycle = {}
  /\ clients = {}
  /\ sockets = [c \in Connections |-> NewSocket]
  /\ broadcasts = <<>>
  /\ ticks = 0
  /\ cache = <<>>
  /\ discovered = <<>>
  /\ ws = 0
  /\ connections = <<>>
  /\ timers = 0
  /\ wanted = FALSE
  /\ spending = NewTracker(pt, pd)
  /\ recorded = 0
  /\ replaced = FALSE
  /\ orchSpending = NewTracker(pt, pd)
  /\ memory = <<>>
  /\ runCount = 0
  /\ pc = "idle"
  /\ allServices = {}
  /\ plan = NoPlan
  /\ canAfford = <<>>
  /\ payment = <<>>
  /\ i = 0
  /\ results = <<>>
  /\ variables = <<>>
  /\ totalSpent = 0
  /\ result = <<>>
  /\ emitted = <<>>
  /\ payCalls = <<>>
  /\ currentPipelineId = 0
  /\ currentSteps = <<>>
  /\ activePipelines = <<>>
  /\ wire = <<>>

Init == \E pt \in ConfigTaskLimits, pd \in ConfigDayLimits : InitWith(pt, pd)

\* The clock reaches the next local midnight.
Midnight ==
  /\ UNCHANGED extVars
  /\ now + 1 \in Days
  /\ now' = now + 1
  /\ UNCHANGED <<ledgerVars, runVars, apiVars, srvVars>>

\* ------------------------------------------------ the ledger on its own
CallRecordPayment ==
  /\ UNCHANGED extVars
  /\ Len(spending.records) < MaxRecords
  /\ \E amount \in Amounts, asset \in Assets :
       /\ (asset = "STX" => recorded + amount <= MaxRecorded)
       /\ spending' = recordPayment(spending, amount, asset, now)
       /\ recorded' = IF asset = "STX" THEN recorded + amount ELSE recorded
  /\ UNCHANGED <<now, replaced, runVars, apiVars, srvVars>>

CallSetLimits ==
  /\ UNCHANGED extVars
  /\ \E pt \in {<<>>} \cup {<<v>> : v \in TaskLimits},
        pd \in {<<>>} \cup {<<v>> : v \in DayLimits} :
       spending' = setLimits(spending, pt, pd)
  /\ UNCHANGED <<now, recorded, replaced, runVars, apiVars, srvVars>>

CallResetDaily ==
  /\ UNCHANGED extVars
  /\ spending' = resetDaily(spending, now)
  /\ replaced' = TRUE
  /\ UNCHANGED <<now, recorded, runVars, apiVars, srvVars>>

\* Record lists a caller can hand to importRecords: an export of some
\* tracker, here at most one record long. A record's timestamp is the
\* `new Date()` of its recordPayment: no later than now.
ImportInputs ==
  {<<>>} \cup {<<[day |-> d, amount |-> a, asset |-> s]>> :
                 d \in {x \in Days : x <= now}, a \in Amounts, s \in Assets}

CallImportRecords ==
  /\ UNCHANGED extVars
  /\ \E recs \in ImportInputs : spending' = importRecords(spending, recs)
  /\ replaced' = TRUE
  /\ UNCHANGED <<now, recorded, runVars, apiVars, srvVars>>

NextLedger ==
  \/ Midnight
  \/ CallRecordPayment
  \/ CallSetLimits
  \/ CallResetDaily
  \/ CallImportRecords

SpecLedger == Init /\ [][NextLedger]_vars

\* -------------------------------- API server and TaskOrchestrator run
Here == ApiState(currentSteps, wire, activePipelines)

SetApi(h) ==
  /\ currentSteps' = h.currentSteps
  /\ wire' = h.wire
  /\ activePipelines' = h.activePipelines

Callback(em, type, index) == Append(em, [type |-> type, index |-> index])

\* The outer catch letting the error go on to the caller.
ReturnFailure_Rethrows(msg) ==
  /\ result' = result
  /\ pc' = "threw"

\* executePipeline's outer catch: the run returns a failure result.
ReturnFailure(msg) ==
  /\ result' = <<FailureResult(msg)>>
  /\ pc' = "returned"

\* The end of one loop iteration: i++ and the loop test.
NextIteration ==
  /\ i' = i + 1
  /\ pc' = IF i + 1 <= Len(plan.steps) THEN "step" ELSE "compile"

\* The step's catch block, entered with error message msg after the
\* handlers and callbacks so far left h and em, continuing whatever the
\* step's required flag says.
HandleStepError_NeverAborts(msg, h, em) ==
  /\ results' = Append(results,
       [stepId |-> i, success |-> FALSE, error |-> msg,
        data |-> NoData, cost |-> 0])
  /\ emitted' = Callback(em, "stepError", i)
  /\ SetApi(onStepError(currentPipelineId, h, i))
  /\ result' = result
  /\ NextIteration

\* The step's catch block aborting the run whatever the required flag says.
HandleStepError_AlwaysAborts(msg, h, em) ==
  /\ results' = Append(results,
       [stepId |-> i, success |-> FALSE, error |-> msg,
        data |-> NoData, cost |-> 0])
  /\ emitted' = Callback(em, "stepError", i)
  /\ SetApi(onStepError(currentPipelineId, h, i))
  /\ ReturnFailure(RequiredStepFailed(msg))
  /\ i' = i

\* The step's catch block (orchestrator.ts 144-159).
HandleStepError(msg, h, em) ==
  /\ results' = Append(results,
       [stepId |-> i, success |-> FALSE, error |-> msg,
        data |-> NoData, cost |-> 0])
  /\ emitted' = Callback(em, "stepError", i)
  /\ SetApi(onStepError(currentPipelineId, h, i))
  /\ IF plan.steps[i].required
     THEN /\ ReturnFailure(RequiredStepFailed(msg))
          /\ i' = i
     ELSE /\ result' = result
          /\ NextIteration

\* POST /api/pipeline/execute up to the first await of executePipeline.
\* One run is in flight at a time here.
Request ==
  /\ UNCHANGED extVars
  /\ server = "api"
  /\ pc \in {"idle", "done"}
  /\ runCount < MaxRuns
  /\ runCount' = runCount + 1
  /\ currentPipelineId' = runCount + 1
  /\ currentSteps' = <<>>
  /\ activePipelines' = Append(activePipelines, [status |-> "planning"])
  /\ wire' = Broadcast(<<>>, "pipeline:started", runCount + 1, 0)
  /\ pc' = "discover"
  /\ allServices' = {}
  /\ plan' = NoPlan
  /\ canAfford' = <<>>
  /\ payment' = <<>>
  /\ i' = 0
  /\ results' = <<>>
  /\ variables' = <<>>
  /\ totalSpent' = 0
  /\ result' = <<>>
  /\ emitted' = <<>>
  /\ payCalls' = <<>>
  /\ UNCHANGED <<now, ledgerVars, orchSpending, memory, srvVars>>

\* discovery.getAllServices() resolves: the registry's list, which may be
\* empty.
Discovered ==
  /\ UNCHANGED extVars
  /\ pc = "discover"
  /\ \E services \in {Catalog, {}} :
       /\ allServices' = services
       /\ IF services = {}
          THEN ReturnFailure(<<"No x402 services available">>)
          ELSE /\ pc' = "plan"
               /\ result' = result
  /\ UNCHANGED <<now, ledgerVars, orchSpending, memory, runCount, plan, i,
                 contextVars, localVars, emitted, payCalls, apiVars, srvVars>>

\* The canSpend answer is computed and the loop entered regardless of it.
CheckBudget_Ignored(p) ==
  /\ canAfford' = <<canSpend(orchSpending, p.estimatedTotalCost, now)>>
  /\ i' = 1
  /\ pc' = "step"
  /\ result' = result

\* "Check if we can afford the plan": the run fails before the loop when
\* canSpend refuses the plan's estimated total cost.
CheckBudget(p) ==
  LET answer == canSpend(orchSpending, p.estimatedTotalCost, now)
  IN /\ canAfford' = <<answer>>
     /\ IF ~answer.allowed
        THEN /\ ReturnFailure(BudgetExceeded(answer.reason))
             /\ i' = i
        ELSE /\ i' = 1
             /\ pc' = "step"
             /\ result' = result

\* planner.createPlan() resolves; onPlanCreated; the canSpend check on the
\* plan's estimated total cost; the context is created.
Planned ==
  /\ UNCHANGED extVars
  /\ pc = "plan"
  /\ \E p \in {NoPlan} \cup Plans(allServices) :
       IF p.steps = <<>>
       THEN /\ ReturnFailure(<<"Could not create execution plan for this task">>)
            /\ UNCHANGED <<plan, canAfford, i, emitted, apiVars>>
       ELSE /\ plan' = p
            /\ emitted' = Callback(emitted, "planCreated", 0)
            /\ SetApi(onPlanCreated(currentPipelineId, Here, p))
            /\ UNCHANGED currentPipelineId
            /\ CheckBudget(p)
  /\ UNCHANGED <<now, ledgerVars, orchSpending, memory, runCount, allServices,
                 contextVars, payment, payCalls, srvVars>>

\* The head of a loop iteration: onStepStart, then executeStep up to its
\* await of payment.executePayment (or its "Service not found" throw).
\* executeStep with the service looked up after the payment call.
StepStart_PaysFirst ==
  /\ UNCHANGED extVars
  /\ pc = "step"
  /\ LET step == plan.steps[i]
         h == onStepStart(currentPipelineId, Here, i)
         em == Callback(emitted, "stepStart", i)
     IN IF FindService(allServices, step.serviceId) = {}
        THEN /\ HandleStepError(ServiceNotFound(step.serviceId), h, em)
             /\ payCalls' = Append(payCalls, i)
        ELSE /\ payCalls' = Append(payCalls, i)
             /\ pc' = "pay"
             /\ emitted' = em
             /\ SetApi(h)
             /\ UNCHANGED <<i, results, result>>
  /\ payment' = <<>>
  /\ UNCHANGED <<now, ledgerVars, orchSpending, memory, runCount, allServices,
                 plan, canAfford, variables, totalSpent, currentPipelineId,
                 srvVars>>

StepStart ==
  /\ UNCHANGED extVars
  /\ pc = "step"
  /\ LET step == plan.steps[i]
         h == onStepStart(currentPipelineId, Here, i)
         em == Callback(emitted, "stepStart", i)
     IN IF FindService(allServices, step.serviceId) = {}
        THEN /\ HandleStepError(ServiceNotFound(step.serviceId), h, em)
             /\ payCalls' = payCalls
        ELSE /\ payCalls' = Append(payCalls, i)
             /\ pc' = "pay"
             /\ emitted' = em
             /\ SetApi(h)
             /\ UNCHANGED <<i, results, result>>
  /\ payment' = <<>>
  /\ UNCHANGED <<now, ledgerVars, orchSpending, memory, runCount, allServices,
                 plan, canAfford, variables, totalSpent, currentPipelineId,
                 srvVars>>

\* context.variables after a step that returned `data`.
StoreOutput(vs, n, data) ==
  LET names == {"step" \o ToString(n), "lastResult"}
  IN [v \in DOMAIN vs \cup names |-> IF v \in names THEN data ELSE vs[v]]

\* The success path with the onStepComplete callback left out.
StepSucceeded_NoEvent(paid, service) ==
  /\ orchSpending' =
       recordPayment(orchSpending, service.amount, service.asset, now)
  /\ results' = Append(results,
       [stepId |-> i, success |-> TRUE, error |-> NoError,
        data |-> paid.data, cost |-> service.amount])
  /\ variables' = IF paid.data # NoData
                  THEN StoreOutput(variables, i, paid.data)
                  ELSE variables
  /\ totalSpent' = totalSpent + service.amount
  /\ emitted' = emitted
  /\ SetApi(Here)
  /\ result' = result
  /\ NextIteration

\* The payment succeeded: executeStep records the spend and returns the
\* StepResult; the loop body stores it and calls onStepComplete.
StepSucceeded(paid, service) ==
  /\ orchSpending' =
       recordPayment(orchSpending, service.amount, service.asset, now)
  /\ results' = Append(results,
       [stepId |-> i, success |-> TRUE, error |-> NoError,
        data |-> paid.data, cost |-> service.amount])
  /\ variables' = IF paid.data # NoData
                  THEN StoreOutput(variables, i, paid.data)
                  ELSE variables
  /\ totalSpent' = totalSpent + service.amount
  /\ emitted' = Callback(emitted, "stepComplete", i)
  /\ SetApi(onStepComplete(currentPipelineId, Here, i, service.amount))
  /\ result' = result
  /\ NextIteration

\* payment.executePayment() resolves or rejects: the rest of executeStep
\* and of the loop iteration.
PaymentReturns ==
  /\ UNCHANGED extVars
  /\ pc = "pay"
  /\ LET step == plan.steps[i]
         service == CHOOSE s \in FindService(allServices, step.serviceId) : TRUE
     IN \E paid \in PaymentOutcomes(i) \cup PaymentThrows :
          IF paid \in PaymentThrows
          THEN /\ payment' = payment
               /\ HandleStepError(paid.error, Here, emitted)
               /\ UNCHANGED <<orchSpending, variables, totalSpent>>
          ELSE /\ payment' = <<paid>>
               /\ IF ~paid.success
                  THEN /\ HandleStepError(PaymentErrorMessage(paid), Here, emitted)
                       /\ UNCHANGED <<orchSpending, variables, totalSpent>>
                  ELSE StepSucceeded(paid, service)
  /\ UNCHANGED <<now, ledgerVars, memory, runCount, allServices, plan,
                 canAfford, payCalls, currentPipelineId, srvVars>>

\* After the loop: the result is compiled, saved to memory and returned.
Compile ==
  /\ UNCHANGED extVars
  /\ pc = "compile"
  /\ result' = <<SuccessResult(results, totalSpent)>>
  /\ memory' = Append(memory, runCount)
  /\ emitted' = Callback(emitted, "pipelineComplete", 0)
  /\ pc' = "returned"
  /\ UNCHANGED <<now, ledgerVars, orchSpending, runCount, allServices, plan, i,
                 contextVars, localVars, payCalls, apiVars, srvVars>>

\* The handler's promise.then callback. executePipeline catches every
\* error and always resolves, so promise.catch never runs.
Settled ==
  /\ UNCHANGED extVars
  /\ pc = "returned"
  /\ LET r == result[1]
         pipelineId == runCount
         final == [status |-> IF r.success THEN "complete" ELSE "failed"]
     IN /\ activePipelines' = [activePipelines EXCEPT ![pipelineId] = final]
        /\ wire' = Broadcast(wire, "pipeline:completed", pipelineId, 0)
        /\ IF currentPipelineId = pipelineId
           THEN currentPipelineId' = 0 /\ currentSteps' = <<>>
           ELSE UNCHANGED <<currentPipelineId, currentSteps>>
  /\ pc' = "done"
  /\ UNCHANGED <<now, ledgerVars, orchSpending, memory, runCount, allServices,
                 plan, i, contextVars, localVars, result, emitted, payCalls,
                 srvVars>>

\* ------------------- stand-alone server run over Paygent.executeTask
MAX_HISTORY == 50

\* addToHistory without the eviction.
addToHistory_NoEvict(h, entry) == <<entry>> \o h

addToHistory(h, entry) ==
  LET u == <<entry>> \o h
  IN IF Len(u) > MAX_HISTORY THEN SubSeq(u, 1, Len(u) - 1) ELSE u

\* What the run-level variables of the other server keep.
orchVars ==
  <<orchSpending, memory, allServices, plan, canAfford, contextVars, result,
    emitted, currentPipelineId, currentSteps, activePipelines>>

\* POST /api/pipeline/execute: the pipeline id is made, the response sent,
\* "pipeline:started" and the first "pipeline:planning" broadcast.
SrvRequest ==
  /\ UNCHANGED extVars
  /\ server = "standalone"
  /\ pc \in {"idle", "done"}
  /\ runCount < MaxRuns
  /\ runCount' = runCount + 1
  /\ \E b \in Budgets : budget' = b
  /\ wire' = Broadcast(Broadcast(<<>>, "pipeline:started", runCount + 1, 0),
                       "pipeline:planning", runCount + 1, 0)
  /\ stepCount' = 0
  /\ totalCost' = 0
  /\ selection' = <<>>
  /\ payment' = <<>>
  /\ payCalls' = <<>>
  /\ i' = 0
  /\ pc' = "srvPlan"
  /\ UNCHANGED <<now, ledgerVars, orchVars, server, config, pipelineHistory>>

\* planPipeline(query) returns one of its fixed plans (one step at least);
\* "pipeline:planned" is broadcast and the loop entered.
SrvPlanned ==
  /\ UNCHANGED extVars
  /\ pc = "srvPlan"
  /\ \E n \in 1..MaxSteps : stepCount' = n
  /\ wire' = Broadcast(wire, "pipeline:planned", runCount, 0)
  /\ i' = 1
  /\ pc' = "srvStep"
  /\ UNCHANGED <<now, ledgerVars, orchVars, runCount, payment, payCalls, server,
                 config, budget, totalCost, selection, pipelineHistory>>

\* `result.error || 'Step execution failed'`.
StepErrorMessage(msg) ==
  IF msg # NoError THEN msg ELSE <<"Step execution failed">>

\* executeTask returned success=false with error msg after the broadcasts
\* so far left w: the step's catch block, then the run's catch block.
SrvFail(msg, w) ==
  /\ wire' = BroadcastError(
       BroadcastError(w, "pipeline:step:failed", runCount, i,
                      StepErrorMessage(msg)),
       "pipeline:failed", runCount, 0, StepErrorMessage(msg))
  /\ pipelineHistory' = addToHistory(pipelineHistory,
       [id |-> runCount, stepCount |-> 0, totalCostSTX |-> totalCost,
        status |-> "failed"])
  /\ pc' = "done"
  /\ UNCHANGED <<i, totalCost>>

\* The head of a loop iteration: "pipeline:step:started", then executeTask
\* up to its await of payment.executePayment, or to the error it catches.
SrvStepStart ==
  /\ UNCHANGED extVars
  /\ pc = "srvStep"
  /\ LET w == Broadcast(wire, "pipeline:step:started", runCount, i)
         maxBudget == IF budget # <<>> /\ budget[1] # 0
                      THEN budget[1] ELSE config.maxSpendPerTask
     IN \E services \in {Catalog, {}} :
          LET affordableServices == {s \in services : s.amount <= maxBudget}
          IN IF services = {}
             THEN /\ SrvFail(<<"No x402 services available">>, w)
                  /\ UNCHANGED <<selection, payCalls>>
             ELSE IF affordableServices = {}
             THEN /\ SrvFail(<<"No services within budget">>, w)
                  /\ UNCHANGED <<selection, payCalls>>
             ELSE \E chosen \in {<<>>} \cup {<<s>> : s \in affordableServices},
                     estimatedCost \in Amounts :
                    IF chosen = <<>>
                    THEN /\ SrvFail(<<"Could not select a suitable service">>, w)
                         /\ UNCHANGED <<selection, payCalls>>
                    ELSE IF ~canSpend(spending, estimatedCost, now).allowed
                    THEN /\ SrvFail(canSpend(spending, estimatedCost, now).reason, w)
                         /\ UNCHANGED <<selection, payCalls>>
                    ELSE /\ selection' = chosen
                         /\ payCalls' = Append(payCalls, i)
                         /\ wire' = w
                         /\ pc' = "srvPay"
                         /\ UNCHANGED <<i, totalCost, pipelineHistory>>
  /\ payment' = <<>>
  /\ UNCHANGED <<now, ledgerVars, orchVars, runCount, server, config, budget,
                 stepCount>>

\* payment.executePayment() resolves: the rest of executeTask and of the
\* loop iteration, and after the last step the run's success path.
SrvPaymentReturns ==
  /\ UNCHANGED extVars
  /\ pc = "srvPay"
  /\ LET service == selection[1] IN
     \E paid \in PaymentOutcomes(i) :
       /\ payment' = <<paid>>
       /\ IF ~paid.success
          THEN /\ SrvFail(PaymentErrorMessage(paid), wire)
               /\ UNCHANGED <<spending, recorded>>
          ELSE /\ spending' =
                    recordPayment(spending, service.amount, service.asset, now)
               /\ recorded' = IF service.asset = "STX"
                              THEN recorded + service.amount ELSE recorded
               /\ totalCost' = totalCost + service.amount
               /\ i' = i + 1
               /\ LET w == Broadcast(wire, "pipeline:step:completed", runCount, i)
                  IN IF i + 1 <= stepCount
                     THEN /\ wire' = w
                          /\ pc' = "srvStep"
                          /\ pipelineHistory' = pipelineHistory
                     ELSE /\ wire' = Broadcast(w, "pipeline:completed", runCount, 0)
                          /\ pipelineHistory' = addToHistory(pipelineHistory,
                               [id |-> runCount, stepCount |-> stepCount,
                                totalCostSTX |-> totalCost + service.amount,
                                status |-> "success"])
                          /\ pc' = "done"
  /\ UNCHANGED <<now, replaced, orchVars, runCount, payCalls, server, config,
                 budget, stepCount, selection>>

Next ==
  \/ Midnight
  \/ Request
  \/ Discovered
  \/ Planned
  \/ StepStart
  \/ PaymentReturns
  \/ Compile
  \/ Settled
  \/ SrvRequest
  \/ SrvPlanned
  \/ SrvStepStart
  \/ SrvPaymentReturns

Spec == Init /\ [][Next]_vars

\* The runs of the API server on one local day.
NextRun ==
  \/ Request
  \/ Discovered
  \/ Planned
  \/ StepStart
  \/ PaymentReturns
  \/ Compile
  \/ Settled

SpecRun == Init /\ [][NextRun]_vars

\* ------------------------------------------------------- TaskPlanner
DefaultMaxSteps == 5
DefaultMaxBudget == 1000000

Elements(seq) == {seq[k] : k \in DOMAIN seq}

Min(a, b) == IF a <= b THEN a ELSE b

\* taskPatterns of createHeuristicPlan, in order: the category and the
\* keywords of each; whether a pattern's regular expression matches is
\* part of the query (below).
taskPatterns ==
  << [category |-> "news", keywords |-> {"bitcoin", "news"}],
     [category |-> "news", keywords |-> {"stacks", "news"}],
     [category |-> "news", keywords |-> {"news"}],
     [category |-> "market", keywords |-> {"bitcoin", "price", "btc"}],
     [category |-> "market", keywords |-> {"stx", "price"}],
     [category |-> "blockchain", keywords |-> {"blockchain", "info"}],
     [category |-> "ai", keywords |-> {"summarize", "ai"}],
     [category |-> "ai", keywords |-> {"sentiment", "analysis"}],
     [category |-> "ai", keywords |-> {"translate", "language"}],
     [category |-> "generation", keywords |-> {"tweet", "generate", "social"}],
     [category |-> "generation", keywords |-> {"report", "generate"}] >>

\* A query is [matches, words]: the taskPatterns its text matches and its
\* words of three letters or more.
Queries ==
  { [matches |-> {1, 3, 7}, words |-> {"bitcoin", "news", "summarize"}],
    [matches |-> {7, 10}, words |-> {"summarize", "and", "tweet"}],
    [matches |-> {}, words |-> {"bitcoin"}],
    [matches |-> {}, words |-> {"weather"}] }

\* getFallbackServices(): the static list, in its order.
getFallbackServices ==
  << [id |-> "demo-bitcoin-news", amount |-> 1000, asset |-> "STX"],
     [id |-> "demo-stacks-news", amount |-> 1000, asset |-> "STX"],
     [id |-> "demo-summarize", amount |-> 2000, asset |-> "STX"],
     [id |-> "demo-sentiment", amount |-> 1500, asset |-> "STX"],
     [id |-> "demo-translate", amount |-> 1500, asset |-> "STX"],
     [id |-> "demo-tweet-generator", amount |-> 1000, asset |-> "STX"],
     [id |-> "demo-report-generator", amount |-> 3000, asset |-> "STX"],
     [id |-> "demo-btc-price", amount |-> 500, asset |-> "STX"],
     [id |-> "demo-stx-price", amount |-> 500, asset |-> "STX"],
     [id |-> "demo-blockchain-info", amount |-> 500, asset |-> "STX"],
     [id |-> "demo-echo", amount |-> 100, asset |-> "STX"] >>

\* The text fields of the fallback services: the category, and the
\* keywords and query words that the lower-cased name and description
\* include and that the tags hold.
FallbackInfo ==
  ("demo-bitcoin-news" :> [category |-> "news",
       name |-> {"bitcoin", "news"},
       description |-> {"analysis", "bitcoin", "news", "sentiment"},
       tags |-> {"bitcoin", "btc", "news"}])
  @@ ("demo-stacks-news" :> [category |-> "news",
       name |-> {"news", "stacks"},
       description |-> {"and", "news", "stacks"},
       tags |-> {"news", "stacks"}])
  @@ ("demo-summarize" :> [category |-> "ai",
       name |-> {"ai", "summarize"},
       description |-> {"summarize"},
       tags |-> {"ai", "summarize"}])
  @@ ("demo-sentiment" :> [category |-> "ai",
       name |-> {"sentiment"},
       description |-> {"sentiment"},
       tags |-> {"ai", "analysis", "sentiment"}])
  @@ ("demo-translate" :> [category |-> "ai",
       name |-> {},
       description |-> {"language", "translate"},
       tags |-> {"ai", "language", "translate"}])
  @@ ("demo-tweet-generator" :> [category |-> "generation",
       name |-> {"tweet"},
       description |-> {"generate", "tweet"},
       tags |-> {"ai", "generate", "social", "tweet"}])
  @@ ("demo-report-generator" :> [category |-> "generation",
       name |-> {"report"},
       description |-> {"and", "generate", "report"},
       tags |-> {"ai", "analysis", "generate", "report"}])
  @@ ("demo-btc-price" :> [category |-> "market",
       name |-> {"bitcoin", "price"},
       description |-> {"and", "bitcoin", "price"},
       tags |-> {"bitcoin", "btc", "price"}])
  @@ ("demo-stx-price" :> [category |-> "market",
       name |-> {"price", "stx"},
       description |-> {"and", "price", "stx"},
       tags |-> {"price", "stacks", "stx"}])
  @@ ("demo-blockchain-info" :> [category |-> "blockchain",
       name |-> {"ai", "blockchain", "info"},
       description |-> {"ai", "and", "blockchain", "info", "stacks"},
       tags |-> {"blockchain", "info", "stacks"}])
  @@ ("demo-echo" :> [category |-> "utility",
       name |-> {},
       description |-> {},
       tags |-> {}])

\* The text fields of the catalog's services, as the words they include:
\* s1 is a news service, s2 a summarizer.
ServiceInfo(id) ==
  IF id \in DOMAIN FallbackInfo THEN FallbackInfo[id]
  ELSE IF id = "s1"
  THEN [category |-> "news",
        name |-> {"bitcoin", "news"},
        description |-> {"bitcoin", "news", "headlines", "sentiment", "analysis"},
        tags |-> {"bitcoin", "news", "crypto", "btc", "headlines"}]
  ELSE [category |-> "ai",
        name |-> {"ai", "summarize"},
        description |-> {"summarize", "text", "content"},
        tags |-> {"ai", "summarize", "nlp", "text", "summary"}]

\* The service lists discovery can hand to the planner; a service's id is
\* its key in the registry.
ServiceLists ==
  {<<>>} \cup {<<a>> : a \in Catalog}
         \cup {pair \in Catalog \X Catalog : pair[1] # pair[2]}

\* The detection loop without its test for a task of the same category.
RECURSIVE DetectTasks_EveryMatch(_, _, _)
DetectTasks_EveryMatch(query, k, detected) ==
  IF k > Len(taskPatterns) THEN detected
  ELSE DetectTasks_EveryMatch(query, k + 1,
         IF k \in query.matches
         THEN Append(detected, taskPatterns[k])
         ELSE detected)

\* createHeuristicPlan: the detected tasks, one per category, in
\* taskPatterns order, from pattern k on.
RECURSIVE DetectTasks(_, _, _)
DetectTasks(query, k, detected) ==
  IF k > Len(taskPatterns) THEN detected
  ELSE DetectTasks(query, k + 1,
         IF k \in query.matches
            /\ \A t \in Elements(detected) : t.category # taskPatterns[k].category
         THEN Append(detected, taskPatterns[k])
         ELSE detected)

\* A service's score for a task, a service already selected scoring as
\* any other.
TaskScore_Reselects(service, task, included) ==
  LET info == ServiceInfo(service.id)
  IN (IF info.category = task.category THEN 10 ELSE 0)
     + 5 * Cardinality(task.keywords \cap info.name)
     + 3 * Cardinality(task.keywords \cap info.description)
     + 4 * Cardinality(task.keywords \cap info.tags)

\* createHeuristicPlan: a service's score for a task; included is
\* `selectedServices.includes(service)`.
TaskScore(service, task, included) ==
  LET info == ServiceInfo(service.id)
  IN IF included THEN 0
     ELSE (IF info.category = task.category THEN 10 ELSE 0)
          + 5 * Cardinality(task.keywords \cap info.name)
          + 3 * Cardinality(task.keywords \cap info.description)
          + 4 * Cardinality(task.keywords \cap info.tags)

\* The services at the positions picked of a list.
ServicesAt(services, picked) ==
  [n \in DOMAIN picked |-> services[picked[n]]]

\* createHeuristicPlan: the inner loop over services from index k on. An
\* object of the list is its position: `includes` compares objects, so two
\* entries of the same content are two services. picked holds the
\* positions selected so far; best is <<>> (null) or <<position>>.
RECURSIVE BestService(_, _, _, _, _, _)
BestService(services, task, picked, k, best, bestScore) ==
  IF k > Len(services) THEN best
  ELSE LET score == TaskScore(services[k], task, k \in Elements(picked))
       IN IF score > bestScore
          THEN BestService(services, task, picked, k + 1, <<k>>, score)
          ELSE BestService(services, task, picked, k + 1, best, bestScore)

\* createHeuristicPlan: the loop over tasksToExecute from index k on; the
\* positions it selects.
RECURSIVE MatchTasks(_, _, _, _, _)
MatchTasks(services, tasks, maxBudget, k, picked) ==
  IF k > Len(tasks) THEN picked
  ELSE LET best == BestService(services, tasks[k], picked, 1, <<>>, 0)
       IN MatchTasks(services, tasks, maxBudget, k + 1,
            IF best # <<>>
               /\ SumAmounts(ServicesAt(services, picked))
                    + services[best[1]].amount <= maxBudget
            THEN Append(picked, best[1])
            ELSE picked)

\* [...services].sort(by price)[0]: the first service of the lowest price,
\* <<>> when there is none.
Cheapest(services) ==
  IF services = <<>> THEN <<>>
  ELSE LET k == CHOOSE n \in DOMAIN services :
                  /\ \A m \in DOMAIN services : services[n].amount <= services[m].amount
                  /\ \A m \in 1..(n - 1) : services[m].amount > services[n].amount
       IN <<services[k]>>

\* The TaskPlan both heuristic tiers build from the selected services.
HeuristicPlan(selectedServices) ==
  [steps |-> [k \in DOMAIN selectedServices |->
                [serviceId |-> selectedServices[k].id,
                 required |-> TRUE,
                 estimatedCost |-> selectedServices[k].amount]],
   estimatedTotalCost |-> SumAmounts(selectedServices)]

\* Both heuristic tiers without the cheapest-service fallback.
WithCheapestFallback_None(services, maxBudget, selectedServices) ==
  IF selectedServices # <<>> THEN HeuristicPlan(selectedServices) ELSE NoPlan

\* Both heuristic tiers: the cheapest service when nothing was selected,
\* null when that one is over the budget too.
WithCheapestFallback(services, maxBudget, selectedServices) ==
  IF selectedServices # <<>> THEN HeuristicPlan(selectedServices)
  ELSE LET cheapest == Cheapest(services)
       IN IF cheapest # <<>> /\ cheapest[1].amount <= maxBudget
          THEN HeuristicPlan(cheapest)
          ELSE NoPlan

\* createKeywordBasedPlan: a service's score for the query's words.
KeywordScore(service, words) ==
  LET info == ServiceInfo(service.id)
  IN 3 * Cardinality(words \cap info.name)
     + 2 * Cardinality(words \cap info.description)
     + 2 * Cardinality(words \cap info.tags)

\* The comparator of scoredServices.sort: a goes before b.
ScoredBefore(a, b, words) ==
  \/ KeywordScore(a, words) > KeywordScore(b, words)
  \/ /\ KeywordScore(a, words) = KeywordScore(b, words)
     /\ a.amount < b.amount

\* Array.prototype.sort (stable) by insertion.
RECURSIVE InsertScored(_, _, _)
InsertScored(sorted, service, words) ==
  IF sorted = <<>> THEN <<service>>
  ELSE IF ScoredBefore(service, sorted[Len(sorted)], words)
       THEN Append(InsertScored(SubSeq(sorted, 1, Len(sorted) - 1), service, words),
                   sorted[Len(sorted)])
       ELSE Append(sorted, service)

RECURSIVE SortScored(_, _)
SortScored(services, words) ==
  IF services = <<>> THEN <<>>
  ELSE InsertScored(SortScored(SubSeq(services, 1, Len(services) - 1), words),
                    services[Len(services)], words)

\* The loop over scoredServices without its break at a score of zero.
RECURSIVE TakeTop_NoZeroBreak(_, _, _, _, _, _)
TakeTop_NoZeroBreak(scored, words, maxSteps, maxBudget, k, selectedServices) ==
  IF k > Len(scored) THEN selectedServices
  ELSE IF Len(selectedServices) >= maxSteps THEN selectedServices
  ELSE TakeTop_NoZeroBreak(scored, words, maxSteps, maxBudget, k + 1,
         IF SumAmounts(selectedServices) + scored[k].amount <= maxBudget
         THEN Append(selectedServices, scored[k])
         ELSE selectedServices)

\* createKeywordBasedPlan: the loop over scoredServices from index k on,
\* with its two breaks.
RECURSIVE TakeTop(_, _, _, _, _, _)
TakeTop(scored, words, maxSteps, maxBudget, k, selectedServices) ==
  IF k > Len(scored) THEN selectedServices
  ELSE IF Len(selectedServices) >= maxSteps THEN selectedServices
  ELSE IF KeywordScore(scored[k], words) = 0 /\ Len(selectedServices) > 0
       THEN selectedServices
  ELSE TakeTop(scored, words, maxSteps, maxBudget, k + 1,
         IF SumAmounts(selectedServices) + scored[k].amount <= maxBudget
         THEN Append(selectedServices, scored[k])
         ELSE selectedServices)

createKeywordBasedPlan(query, services, maxSteps, maxBudget) ==
  WithCheapestFallback(services, maxBudget,
    TakeTop(SortScored(services, query.words), query.words, maxSteps,
            maxBudget, 1, <<>>))

createHeuristicPlan(query, services, maxSteps, maxBudget) ==
  LET detectedTasks == DetectTasks(query, 1, <<>>)
      tasksToExecute ==
        SubSeq(detectedTasks, 1, Min(maxSteps, Len(detectedTasks)))
  IN IF detectedTasks = <<>>
     THEN createKeywordBasedPlan(query, services, maxSteps, maxBudget)
     ELSE WithCheapestFallback(services, maxBudget,
            ServicesAt(services,
              MatchTasks(services, tasksToExecute, maxBudget, 1, <<>>)))

\* What the model's answer parses to: an error, or steps naming services.
\* createAIPlan copies the steps as they are: it reads neither maxSteps nor
\* maxBudget after the prompt is built.
createAIPlan(services, parsed) ==
  IF parsed.error THEN NoPlan
  ELSE MakePlan(Elements(services), parsed.steps)

\* The AI tier of a createPlan call: no client ("none"), a call that throws
\* ("throws": request error, empty or unparsable answer), or an answer.
AIAnswers ==
  {[kind |-> k, error |-> FALSE, steps |-> <<>>] : k \in {"none", "throws"}}
  \cup {[kind |-> "answer", error |-> TRUE, steps |-> <<>>]}
  \cup {[kind |-> "answer", error |-> FALSE, steps |-> st] :
          st \in UNION {[1..n -> StepKinds] : n \in 0..MaxSteps}}

\* options.maxSteps and options.maxBudget: absent, or a number.
StepOptions == {<<>>} \cup {<<n>> : n \in 0..MaxSteps}
BudgetOptions == {<<>>} \cup {<<b>> : b \in {0} \cup Amounts}

\* Queries put to the planner against the fallback list: "Summarize
\* today's news and tweet it", "tweet the bitcoin news", "bitcoin news and
\* bitcoin price summarize and tweet", "stacks news sentiment", and
\* "generate", which no pattern matches.
FallbackQueries ==
  { [matches |-> {3, 7, 10},
     words |-> {"summarize", "today's", "news", "and", "tweet"}],
    [matches |-> {1, 3, 10}, words |-> {"tweet", "the", "bitcoin", "news"}],
    [matches |-> {1, 3, 4, 7, 10},
     words |-> {"bitcoin", "news", "and", "price", "summarize", "tweet"}],
    [matches |-> {2, 3, 8}, words |-> {"stacks", "news", "sentiment"}],
    [matches |-> {}, words |-> {"generate"}] }

\* What discovery hands over when the registry is down (the whole fallback
\* list) or lists the two news services, or the first of them, only.
FallbackLists ==
  {getFallbackServices, SubSeq(getFallbackServices, 1, 2),
   SubSeq(getFallbackServices, 1, 1)}

FallbackBudgets == {<<>>, <<500>>, <<1000>>, <<2500>>}

PlanCalls ==
  [query : Queries, services : ServiceLists, maxSteps : StepOptions,
   maxBudget : BudgetOptions, ai : AIAnswers]
  \cup [query : Queries \cup FallbackQueries, services : FallbackLists,
        maxSteps : StepOptions, maxBudget : FallbackBudgets,
        ai : {a \in AIAnswers : a.kind # "answer"}]

\* `options.maxSteps || 5` and `options.maxBudget || BigInt(1000000)`.
RequestedMaxSteps(call) ==
  IF call.maxSteps # <<>> /\ call.maxSteps[1] # 0
  THEN call.maxSteps[1] ELSE DefaultMaxSteps

RequestedMaxBudget(call) ==
  IF call.maxBudget # <<>> /\ call.maxBudget[1] # 0
  THEN call.maxBudget[1] ELSE DefaultMaxBudget

createPlan(call) ==
  IF call.ai.kind = "answer"
  THEN createAIPlan(call.services, call.ai)
  ELSE createHeuristicPlan(call.query, call.services,
                           RequestedMaxSteps(call), RequestedMaxBudget(call))

\* planner.createPlan(query, availableServices, options) is called and
\* returns. The calls do not depend on each other: one is followed.
CallCreatePlan ==
  /\ planCall = <<>>
  /\ \E call \in PlanCalls :
       /\ planCall' = <<call>>
       /\ planReturn' = <<createPlan(call)>>
  /\ UNCHANGED <<now, ledgerVars, runVars, apiVars, srvVars, historyVars,
                 threadVars, concVars, subVars, discVars, clientVars>>

NextPlanner == CallCreatePlan

SpecPlanner == Init /\ [][NextPlanner]_vars

\* ------------------------------------------ the History Log on its own
MaxInserted == 52

\* addToHistory(entry) is called with the entry of one more run; the
\* entries are numbered in insertion order.
CallAddToHistory ==
  /\ server = "standalone"
  /\ inserted < MaxInserted
  /\ inserted' = inserted + 1
  /\ pipelineHistory' = addToHistory(pipelineHistory,
       [id |-> inserted + 1, stepCount |-> 1, totalCostSTX |-> 0,
        status |-> "success"])
  /\ UNCHANGED <<now, ledgerVars, runVars, apiVars, server, config, budget,
                 stepCount, totalCost, selection, plannerVars, historyRead,
                 threadVars, concVars, subVars, discVars, clientVars>>

\* GET /api/history answers with the whole of pipelineHistory.
GetHistory ==
  /\ server = "standalone"
  /\ historyRead' = <<pipelineHistory>>
  /\ UNCHANGED <<now, ledgerVars, runVars, apiVars, srvVars, plannerVars,
                 inserted, threadVars, concVars, subVars, discVars, clientVars>>

NextHistory == CallAddToHistory \/ GetHistory

SpecHistory == Init /\ [][NextHistory]_vars

\* ------------------------------ request templates and interpolation
\* A JSON value is [kind, text, parts, items]:
\*   "undefined", "null"          nothing else set;
\*   "boolean", "number"          text is the literal;
\*   "string"                     parts is the sequence of its pieces, each a
\*                                run of plain text or one {{key}} placeholder;
\*   "array"                      items is the sequence of its elements;
\*   "object"                     items is the sequence of its [key, value].
JValue(kind, text, parts, items) ==
  [kind |-> kind, text |-> text, parts |-> parts, items |-> items]

JUndefined == JValue("undefined", "", <<>>, <<>>)
JNull == JValue("null", "", <<>>, <<>>)
JBoolean(literal) == JValue("boolean", literal, <<>>, <<>>)
JNumber(literal) == JValue("number", literal, <<>>, <<>>)
JString(parts) == JValue("string", "", parts, <<>>)
JArray(items) == JValue("array", "", <<>>, items)
JObject(items) == JValue("object", "", <<>>, items)

PlainText(text) == [placeholder |-> FALSE, text |-> text]
Placeholder(key) == [placeholder |-> TRUE, text |-> key]

\* JavaScript truthiness, as `if (!data)` and `result.data &&` test it.
Truthy(v) ==
  CASE v.kind \in {"undefined", "null"} -> FALSE
    [] v.kind = "boolean" -> v.text = "true"
    [] v.kind = "number" -> v.text # "0"
    [] v.kind = "string" -> v.parts # <<>>
    [] OTHER -> TRUE

RECURSIVE JoinText(_)
JoinText(parts) ==
  IF parts = <<>> THEN ""
  ELSE (IF Head(parts).placeholder
        THEN "{{" \o Head(parts).text \o "}}"
        ELSE Head(parts).text) \o JoinText(Tail(parts))

\* JSON.stringify(v): the text of the value.
RECURSIVE JSONstringify(_)
RECURSIVE StringifyItems(_, _)
StringifyItems(items, isObject) ==
  IF items = <<>> THEN ""
  ELSE (IF isObject
        THEN "\"" \o Head(items).key \o "\":" \o JSONstringify(Head(items).value)
        ELSE JSONstringify(Head(items)))
       \o (IF Tail(items) = <<>> THEN "" ELSE ",")
       \o StringifyItems(Tail(items), isObject)

JSONstringify(v) ==
  CASE v.kind = "null" -> "null"
    [] v.kind \in {"boolean", "number"} -> v.text
    [] v.kind = "string" -> "\"" \o JoinText(v.parts) \o "\""
    [] v.kind = "array" -> "[" \o StringifyItems(v.items, FALSE) \o "]"
    [] v.kind = "object" -> "{" \o StringifyItems(v.items, TRUE) \o "}"
    [] OTHER -> "undefined"

\* context.variables is an object literal: a name it does not hold itself
\* is looked up in Object.prototype, whose members are functions.
ObjectPrototype == {"constructor", "toString"}
JFunction == JValue("function", "", <<>>, <<>>)

\* variables[key], for a key that is one of its own or an inherited one.
Lookup(vs, key) == IF key \in DOMAIN vs THEN vs[key] ELSE JFunction

\* `variables[key] !== undefined`.
IsDefined(vs, key) == key \in DOMAIN vs \/ key \in ObjectPrototype

\* interpolateVariables with every placeholder left as it is.
interpolateVariables_Verbatim(data, vs) == data

\* interpolateVariables(data, variables).
RECURSIVE interpolateVariables(_, _)
interpolateVariables(data, vs) ==
  IF ~Truthy(data) THEN data
  ELSE CASE data.kind = "string" ->
              JString([k \in DOMAIN data.parts |->
                LET part == data.parts[k]
                IN IF part.placeholder /\ IsDefined(vs, part.text)
                   THEN PlainText(JSONstringify(Lookup(vs, part.text)))
                   ELSE part])
         [] data.kind = "array" ->
              JArray([k \in DOMAIN data.items |->
                interpolateVariables(data.items[k], vs)])
         [] data.kind = "object" ->
              JObject([k \in DOMAIN data.items |->
                [key |-> data.items[k].key,
                 value |-> interpolateVariables(data.items[k].value, vs)]])
         [] OTHER -> data

\* Payloads a paid service can answer with.
Payloads ==
  { JObject(<<[key |-> "price", value |-> JNumber("100")]>>),
    JString(<<PlainText("ok")>>),
    JNumber("100"),
    JNumber("0"),
    JObject(<<[key |-> "success", value |-> JBoolean("false")],
              [key |-> "error", value |-> JString(<<PlainText("upstream timeout")>>)]>>) }

\* Request templates of a plan step.
Templates ==
  { JUndefined,
    JObject(<<[key |-> "input", value |-> JString(<<Placeholder("lastResult")>>)]>>),
    JString(<<PlainText("from "), Placeholder("step1"), PlainText(" to "),
              Placeholder("lastResult"), Placeholder("lastResult")>>),
    JArray(<<JString(<<Placeholder("lastResult")>>), JNumber("1"),
             JString(<<Placeholder("unknown")>>)>>),
    JObject(<<[key |-> "input", value |-> JString(<<Placeholder("constructor")>>)]>>) }

\* What executePayment resolves to for a step: a failure, or a success
\* with one of the payloads.
DataOutcomes ==
  {[success |-> FALSE, error |-> NoError, data |-> JUndefined]}
  \cup {[success |-> TRUE, error |-> NoError, data |-> d] : d \in Payloads}

\* One loop iteration on the next step of a plan, with the step's data:
\* executeStep interpolates the step's requestData and hands it to
\* executePayment; a failed payment is the step's error, which aborts the
\* run when the step is required; a successful one is the step's success
\* and the loop stores its payload.
ExecuteStepData ==
  /\ pc = "idle"
  /\ i < MaxSteps
  /\ i' = i + 1
  /\ \E t \in Templates, required \in BOOLEAN, paid \in DataOutcomes :
       /\ template' = <<t>>
       /\ requestData' = <<interpolateVariables(t, variables)>>
       /\ plan' = [steps |-> Append(plan.steps,
                     [serviceId |-> "s1", required |-> required,
                      estimatedCost |-> 1]),
                   estimatedTotalCost |-> plan.estimatedTotalCost + 1]
       /\ payment' = <<paid>>
       /\ IF ~paid.success
          THEN /\ results' = Append(results,
                    [stepId |-> i + 1, success |-> FALSE,
                     error |-> PaymentErrorMessage(paid),
                     data |-> JUndefined, cost |-> 0])
               /\ IF required
                  THEN ReturnFailure(RequiredStepFailed(PaymentErrorMessage(paid)))
                  ELSE UNCHANGED <<pc, result>>
               /\ UNCHANGED <<variables, lastOutput, totalSpent>>
          ELSE /\ results' = Append(results,
                    [stepId |-> i + 1, success |-> TRUE, error |-> NoError,
                     data |-> paid.data, cost |-> 1])
               /\ totalSpent' = totalSpent + 1
               /\ lastOutput' = <<paid.data>>
               /\ variables' = IF Truthy(paid.data)
                               THEN StoreOutput(variables, i + 1, paid.data)
                               ELSE variables
               /\ UNCHANGED <<pc, result>>
  /\ UNCHANGED <<now, ledgerVars, orchSpending, memory, runCount, allServices,
                 canAfford, emitted, payCalls, apiVars, srvVars, plannerVars,
                 historyVars, concVars, subVars, discVars, clientVars>>

\* The outputTemplate of a plan: none, or a string with placeholders.
OutputTemplates ==
  { JUndefined,
    JString(<<PlainText("Final result: "), Placeholder("step1"),
              PlainText(" and "), Placeholder("step2")>>) }

\* compileFinalOutput(context, plan) on JSON payloads: the interpolated
\* outputTemplate when the plan has one, else the data of the last result
\* with `r.success && r.data`, else null.
compileFinalOutputData(stepResults, vs, outputTemplate) ==
  LET ok(r) == r.success /\ Truthy(r.data)
      good == SelectSeq(stepResults, ok)
  IN IF Truthy(outputTemplate)
     THEN interpolateVariables(outputTemplate, vs)
     ELSE IF good # <<>> THEN good[Len(good)].data ELSE JNull

\* After the last step of a plan: the result is compiled and returned.
CompileData ==
  /\ pc = "idle"
  /\ i >= 1
  /\ \E t \in OutputTemplates :
       /\ plan' = [steps |-> plan.steps,
                   estimatedTotalCost |-> plan.estimatedTotalCost,
                   outputTemplate |-> t]
       /\ result' = <<[success |-> TRUE, error |-> NoError, hasPlan |-> TRUE,
                       stepResults |-> results, totalCost |-> totalSpent,
                       finalOutput |-> compileFinalOutputData(results, variables, t)]>>
  /\ pc' = "returned"
  /\ UNCHANGED <<now, ledgerVars, orchSpending, memory, runCount, allServices,
                 i, contextVars, localVars, emitted, payCalls, apiVars, srvVars,
                 extVars>>

NextThreading == ExecuteStepData \/ CompileData

SpecThreading == Init /\ [][NextThreading]_vars

\* ------------------------- several runs in flight on the API server
\* The handler of POST /api/pipeline/execute returns at the first await of
\* executePipeline, so a second request is served while the first run is
\* still in flight. The runs share the orchestrator's SpendingTracker,
\* currentPipelineId, currentSteps and activePipelines; each has its own
\* plan, context and result. A run is
\*   [pipelineId, pc, plan, i, results, totalSpent, canAfford, result].
MaxClock == 2

\* The runs in flight together: a first and a second request.
Runners == {1, 2}

\* The plans of the concurrent runs: one required step, or an optional
\* and a required step, on the STX service.
ConcurrentPlans ==
  { MakePlan(Catalog, <<[serviceId |-> "s1", required |-> TRUE]>>),
    MakePlan(Catalog, <<[serviceId |-> "s1", required |-> FALSE],
                        [serviceId |-> "s1", required |-> TRUE]>>) }

\* What executePayment resolves to for the concurrent runs.
ConcurrentOutcomes(n) ==
  {o \in PaymentOutcomes(n) : o.data = NoData /\ o.error = NoError}

\* finalStatus of the promise.then callback for result r: the steps are the
\* currentSteps array when it is not empty, else the mapped step results.
FinalStatus(r, cs) ==
  PipelineStatus(
    IF r.success THEN "complete" ELSE "failed",
    IF cs # <<>> THEN cs
    ELSE [k \in DOMAIN r.stepResults |->
            [id |-> r.stepResults[k].stepId,
             status |-> IF r.stepResults[k].success THEN "complete"
                        ELSE "failed",
             costSTX |-> r.stepResults[k].cost]],
    r.totalCost,
    cs # <<>>)

\* activePipelines.set(id, {status}).
SetPipeline(ap, id, status) ==
  [k \in DOMAIN ap \cup {id} |-> IF k = id THEN status ELSE ap[k]]

\* What one handler call of run r did: the event it stands for, whether it
\* was broadcast and with which pipeline id.
Emission(r, event, index, before, after) ==
  IF Len(after.wire) > Len(before.wire)
  THEN [run |-> r, event |-> event, stepIndex |-> index, delivered |-> TRUE,
        pipelineId |-> after.wire[Len(after.wire)].pipelineId]
  ELSE [run |-> r, event |-> event, stepIndex |-> index, delivered |-> FALSE,
        pipelineId |-> 0]

SetRun(r, run) == runs' = [runs EXCEPT ![r] = run]

FailedRun(run, msg) ==
  [run EXCEPT !.result = <<FailureResult(msg)>>, !.pc = "returned"]

\* i++ and the loop test; after the last step the result is compiled and
\* returned.
Iterated(run) ==
  IF run.i + 1 <= Len(run.plan.steps)
  THEN [run EXCEPT !.i = run.i + 1, !.pc = "step"]
  ELSE [run EXCEPT !.i = run.i + 1, !.pc = "returned",
                   !.result = <<SuccessResult(run.results, run.totalSpent)>>]

\* The step's catch block of run `run` with error message msg.
StepFailed(run, msg) ==
  LET failed == [run EXCEPT !.results = Append(run.results,
                   [stepId |-> run.i, success |-> FALSE, error |-> msg,
                    data |-> NoData, cost |-> 0])]
  IN IF run.plan.steps[run.i].required
     THEN FailedRun(failed, RequiredStepFailed(msg))
     ELSE Iterated(failed)

\* A millisecond passes.
ClockTick ==
  /\ clock < MaxClock
  /\ clock' = clock + 1
  /\ lifecycle' = {}
  /\ UNCHANGED <<now, ledgerVars, runVars, apiVars, srvVars, plannerVars,
                 historyVars, threadVars, subVars, discVars, clientVars, runs>>

\* POST /api/pipeline/execute up to the first await of executePipeline.
ConcurrentRequest ==
  /\ server = "api"
  /\ Len(runs) + 1 \in Runners
  /\ LET pipelineId == clock
     IN /\ currentPipelineId' = pipelineId
        /\ currentSteps' = <<>>
        /\ activePipelines' =
             SetPipeline(Rebound(activePipelines), pipelineId,
                         PipelineStatus("planning", <<>>, 0, FALSE))
        /\ lifecycle' =
             {[run |-> Len(runs) + 1, event |-> "pipeline:started",
               stepIndex |-> 0, delivered |-> TRUE, pipelineId |-> pipelineId]}
        /\ runs' = Append(runs,
             [pipelineId |-> pipelineId, pc |-> "plan", plan |-> NoPlan,
              i |-> 0, results |-> <<>>, totalSpent |-> 0,
              canAfford |-> <<>>, result |-> <<>>])
  /\ UNCHANGED <<now, ledgerVars, runVars, wire, srvVars, plannerVars,
                 historyVars, threadVars, subVars, discVars, clientVars, clock>>

\* Run r: createPlan resolves; onPlanCreated; the canSpend check.
ConcurrentPlanned ==
  \E r \in DOMAIN runs :
  /\ runs[r].pc = "plan"
  /\ \E p \in {NoPlan} \cup ConcurrentPlans :
       IF p.steps = <<>>
       THEN /\ SetRun(r, FailedRun(runs[r],
                      <<"Could not create execution plan for this task">>))
            /\ lifecycle' = {}
            /\ UNCHANGED <<currentSteps, activePipelines>>
       ELSE LET before == ApiState(currentSteps, <<>>, activePipelines)
                after == onPlanCreated(currentPipelineId, before, p)
                answer == canSpend(orchSpending, p.estimatedTotalCost, now)
                planned == [runs[r] EXCEPT !.plan = p,
                                           !.canAfford = <<answer>>]
            IN /\ currentSteps' = after.currentSteps
               /\ activePipelines' = after.activePipelines
               /\ lifecycle' =
                    {Emission(r, "pipeline:planned", 0, before, after)}
               /\ SetRun(r, IF ~answer.allowed
                            THEN FailedRun(planned,
                                           BudgetExceeded(answer.reason))
                            ELSE [planned EXCEPT !.i = 1, !.pc = "step"])
  /\ UNCHANGED <<now, ledgerVars, runVars, wire, currentPipelineId, srvVars,
                 plannerVars, historyVars, threadVars, subVars, discVars, clientVars, clock>>

\* Run r: onStepStart, then executeStep up to its await of executePayment.
ConcurrentStepStart ==
  \E r \in DOMAIN runs :
  /\ runs[r].pc = "step"
  /\ LET run == runs[r]
         step == run.plan.steps[run.i]
         before == ApiState(currentSteps, <<>>, activePipelines)
         started == onStepStart(currentPipelineId, before, run.i)
         after == IF FindService(Catalog, step.serviceId) = {}
                  THEN onStepError(currentPipelineId,
                                   [started EXCEPT !.wire = <<>>], run.i)
                  ELSE started
     IN /\ currentSteps' = after.currentSteps
        /\ activePipelines' = after.activePipelines
        /\ IF FindService(Catalog, step.serviceId) = {}
           THEN /\ SetRun(r, StepFailed(run, ServiceNotFound(step.serviceId)))
                /\ lifecycle' =
                     {Emission(r, "pipeline:step:started", run.i, before, started),
                      Emission(r, "pipeline:step:failed", run.i, before, after)}
           ELSE /\ SetRun(r, [run EXCEPT !.pc = "pay"])
                /\ lifecycle' =
                     {Emission(r, "pipeline:step:started", run.i, before, started)}
  /\ UNCHANGED <<now, ledgerVars, runVars, wire, currentPipelineId, srvVars,
                 plannerVars, historyVars, threadVars, subVars, discVars, clientVars, clock>>

\* Run r: executePayment resolves; the rest of executeStep and of the loop
\* iteration.
ConcurrentPaymentReturns ==
  \E r \in DOMAIN runs :
  /\ runs[r].pc = "pay"
  /\ LET run == runs[r]
         step == run.plan.steps[run.i]
         service == CHOOSE s \in FindService(Catalog, step.serviceId) : TRUE
         before == ApiState(currentSteps, <<>>, activePipelines)
     IN \E paid \in ConcurrentOutcomes(run.i) :
          IF ~paid.success
          THEN LET after == onStepError(currentPipelineId, before, run.i)
               IN /\ currentSteps' = after.currentSteps
                  /\ activePipelines' = after.activePipelines
                  /\ lifecycle' =
                       {Emission(r, "pipeline:step:failed", run.i, before, after)}
                  /\ SetRun(r, StepFailed(run, PaymentErrorMessage(paid)))
                  /\ UNCHANGED orchSpending
          ELSE LET after == onStepComplete(currentPipelineId, before, run.i,
                                           service.amount)
               IN /\ orchSpending' = recordPayment(orchSpending, service.amount,
                                                   service.asset, now)
                  /\ currentSteps' = after.currentSteps
                  /\ activePipelines' = after.activePipelines
                  /\ lifecycle' =
                       {Emission(r, "pipeline:step:completed", run.i, before, after)}
                  /\ SetRun(r, Iterated(
                       [run EXCEPT
                          !.results = Append(run.results,
                            [stepId |-> run.i, success |-> TRUE,
                             error |-> NoError, data |-> paid.data,
                             cost |-> service.amount]),
                          !.totalSpent = run.totalSpent + service.amount]))
  /\ UNCHANGED <<now, ledgerVars, memory, runCount, pc, allServices, plan, i,
                 results, variables, totalSpent, localVars, result, emitted,
                 payCalls, wire, currentPipelineId, srvVars, plannerVars,
                 historyVars, threadVars, subVars, discVars, clientVars, clock>>

\* Run r: the promise.then callback of its request handler.
ConcurrentSettled ==
  \E r \in DOMAIN runs :
  /\ runs[r].pc = "returned"
  /\ LET run == runs[r]
         final == FinalStatus(run.result[1], currentSteps)
         ap == SetPipeline(activePipelines, run.pipelineId, final)
     IN /\ lifecycle' =
             {[run |-> r, event |-> "pipeline:completed", stepIndex |-> 0,
               delivered |-> TRUE, pipelineId |-> run.pipelineId]}
        /\ IF currentPipelineId = run.pipelineId
           THEN /\ currentPipelineId' = 0
                /\ currentSteps' = <<>>
                /\ activePipelines' = Rebound(ap)
           ELSE /\ activePipelines' = ap
                /\ UNCHANGED <<currentPipelineId, currentSteps>>
        /\ SetRun(r, [run EXCEPT !.pc = "done"])
  /\ UNCHANGED <<now, ledgerVars, runVars, wire, srvVars, plannerVars,
                 historyVars, threadVars, subVars, discVars, clientVars, clock>>

NextConcurrent ==
  \/ ClockTick
  \/ ConcurrentRequest
  \/ ConcurrentPlanned
  \/ ConcurrentStepStart
  \/ ConcurrentPaymentReturns
  \/ ConcurrentSettled

SpecConcurrent == Init /\ [][NextConcurrent]_vars

\* ------------------------------------------- WebSocket subscribers
\* A socket is [readyState, received, joined, left]: received is what the
\* server sent on it; joined and left are the numbers of messages that had
\* been broadcast when the connection came and when it stopped being open
\* (-1: not yet).
SubscriberVarsUnchanged ==
  UNCHANGED <<now, ledgerVars, runVars, apiVars, srvVars, plannerVars,
              historyVars, threadVars, concVars, discVars, clientVars>>

LifecycleEvents == {"pipeline:started", "pipeline:completed"}

Greeting == [type |-> "connected"]

\* The 'connection' handler: the socket is registered; the stand-alone
\* server greets it.
Connect ==
  \E c \in Connections :
    /\ sockets[c].readyState = "CONNECTING"
    /\ clients' = clients \cup {c}
    /\ sockets' = [sockets EXCEPT ![c] =
         [readyState |-> "OPEN",
          received |-> IF server = "standalone" THEN <<Greeting>> ELSE <<>>,
          joined |-> Len(broadcasts), left |-> -1]]
    /\ UNCHANGED broadcasts
    /\ SubscriberVarsUnchanged

\* The closing handshake starts: readyState leaves OPEN before any handler
\* of the server runs.
StartClosing ==
  \E c \in Connections :
    /\ sockets[c].readyState = "OPEN"
    /\ sockets' = [sockets EXCEPT ![c].readyState = "CLOSING",
                                  ![c].left = Len(broadcasts)]
    /\ UNCHANGED <<clients, broadcasts>>
    /\ SubscriberVarsUnchanged

\* ws.on('error'): the socket is closing; it is removed from the set.
OnError ==
  \E c \in Connections :
    /\ sockets[c].readyState \in {"OPEN", "CLOSING"}
    /\ clients' = clients \ {c}
    /\ sockets' = [sockets EXCEPT
         ![c].readyState = "CLOSING",
         ![c].left = IF sockets[c].readyState = "OPEN"
                     THEN Len(broadcasts) ELSE @]
    /\ UNCHANGED broadcasts
    /\ SubscriberVarsUnchanged

\* ws.on('close'): the socket is closed; it is removed from the set.
OnClose ==
  \E c \in Connections :
    /\ sockets[c].readyState \in {"OPEN", "CLOSING"}
    /\ clients' = clients \ {c}
    /\ sockets' = [sockets EXCEPT
         ![c].readyState = "CLOSED",
         ![c].left = IF sockets[c].readyState = "OPEN"
                     THEN Len(broadcasts) ELSE @]
    /\ UNCHANGED broadcasts
    /\ SubscriberVarsUnchanged

\* broadcast sending to every registered socket whatever its readyState.
SendToOpen_Any(ss, cs, message) ==
  [c \in DOMAIN ss |->
     IF c \in cs
     THEN [ss[c] EXCEPT !.received = Append(@, message)]
     ELSE ss[c]]

\* broadcast / broadcastUpdate: the message goes to every registered
\* socket whose readyState is OPEN.
SendToOpen(ss, cs, message) ==
  [c \in DOMAIN ss |->
     IF c \in cs /\ ss[c].readyState = "OPEN"
     THEN [ss[c] EXCEPT !.received = Append(@, message)]
     ELSE ss[c]]

BroadcastEvent ==
  /\ Len(broadcasts) < MaxBroadcasts
  /\ \E event \in LifecycleEvents :
       LET message == [type |-> event]
       IN /\ broadcasts' = Append(broadcasts, message)
          /\ sockets' = SendToOpen(sockets, clients, message)
  /\ UNCHANGED clients
  /\ SubscriberVarsUnchanged

NextSubscribers ==
  \/ Connect
  \/ StartClosing
  \/ OnError
  \/ OnClose
  \/ BroadcastEvent

SpecSubscribers == Init /\ [][NextSubscribers]_vars

\* ------------------------------------------------- ServiceDiscovery
cacheTTL == 60000
TickMs == 30000
MaxTicks == 3

\* Date.now() advances.
TimePasses ==
  /\ ticks < MaxTicks
  /\ ticks' = ticks + 1
  /\ UNCHANGED <<now, ledgerVars, runVars, apiVars, srvVars, plannerVars,
                 historyVars, threadVars, concVars, subVars, cache, discovered,
                 clientVars>>

\* The entries the registry lists, as it sends them: a field is <<>> when
\* the entry does not carry it.
RawEntries ==
  { [id |-> <<"s1">>, amount |-> <<1>>, asset |-> <<"STX">>],
    [id |-> <<"s2">>, amount |-> <<2>>, asset |-> <<"sbtc">>],
    [id |-> <<>>, amount |-> <<>>, asset |-> <<>>] }

RegistryLists ==
  {<<>>} \cup {<<a>> : a \in RawEntries} \cup (RawEntries \X RawEntries)

\* response.data: null, an array of entries, an object with a `services`
\* array ("wrapped"), an object without one ("object"), or an object whose
\* `services` is no array ("malformed": .map throws).
ResponseData ==
  {[shape |-> s, services |-> <<>>] : s \in {"null", "object", "malformed"}}
  \cup {[shape |-> s, services |-> l] :
          s \in {"array", "wrapped"}, l \in RegistryLists}

\* axios.get rejects (no answer, a time-out, a status outside 2xx), or
\* resolves with response.data.
RegistryAnswers ==
  {[failed |-> TRUE, data |-> [shape |-> "null", services |-> <<>>]]}
  \cup {[failed |-> FALSE, data |-> d] : d \in ResponseData}

toUpperCase(asset) ==
  CASE asset = "sbtc" -> "SBTC"
    [] asset = "stx" -> "STX"
    [] OTHER -> asset

\* `service-${index}`, index counted from 0.
DefaultServiceId(index) == <<"service-0", "service-1">>[index + 1]

\* normalizeServices(data): whether it threw, and the list it returned.
normalizeServices(data) ==
  [threw |-> data.shape = "malformed",
   services |->
     IF data.shape \in {"array", "wrapped"}
     THEN [k \in DOMAIN data.services |->
             LET s == data.services[k]
             IN [id |-> IF s.id # <<>> THEN s.id[1] ELSE DefaultServiceId(k - 1),
                 amount |-> IF s.amount # <<>> THEN s.amount[1] ELSE 0,
                 asset |-> toUpperCase(IF s.asset # <<>> THEN s.asset[1] ELSE "STX")]]
     ELSE <<>>]

\* The request to the registry, or the reading of its answer, threw.
RegistryFailed(answer) == answer.failed \/ normalizeServices(answer.data).threw

\* getAllServices that answers a failed request from the expired cache entry.
getAllServices_StaleOnFailure(entry, dateNow, answer) ==
  IF entry # <<>> /\ dateNow - entry[1].timestamp < cacheTTL
  THEN [services |-> entry[1].services, cache |-> entry, asked |-> FALSE]
  ELSE IF RegistryFailed(answer)
  THEN [services |-> IF entry # <<>> THEN entry[1].services
                     ELSE getFallbackServices,
        cache |-> entry, asked |-> TRUE]
  ELSE LET services == normalizeServices(answer.data).services
       IN [services |-> services,
           cache |-> <<[services |-> services, timestamp |-> dateNow]>>,
           asked |-> TRUE]

\* getAllServices() with cache entry `entry` at time dateNow, the registry
\* answering `answer` when asked: the list returned, the cache entry left,
\* and whether the registry was asked.
getAllServices(entry, dateNow, answer) ==
  IF entry # <<>> /\ dateNow - entry[1].timestamp < cacheTTL
  THEN [services |-> entry[1].services, cache |-> entry, asked |-> FALSE]
  ELSE IF RegistryFailed(answer)
  THEN [services |-> getFallbackServices, cache |-> entry, asked |-> TRUE]
  ELSE LET services == normalizeServices(answer.data).services
       IN [services |-> services,
           cache |-> <<[services |-> services, timestamp |-> dateNow]>>,
           asked |-> TRUE]

\* discovery.getAllServices() is called and returns.
CallGetAllServices ==
  /\ \E answer \in RegistryAnswers :
       LET r == getAllServices(cache, ticks * TickMs, answer)
       IN /\ cache' = r.cache
          /\ discovered' = <<[answer |-> answer, asked |-> r.asked,
                              services |-> r.services]>>
  /\ UNCHANGED <<now, ledgerVars, runVars, apiVars, srvVars, plannerVars,
                 historyVars, threadVars, concVars, subVars, ticks, clientVars>>

NextDiscovery == TimePasses \/ CallGetAllServices

SpecDiscovery == Init /\ [][NextDiscovery]_vars

\* ------------------------------------------------- the event client
\* PaygentAPI (the dashboard's client): connectWebSocket and
\* disconnectWebSocket, the browser's WebSocket objects and the reconnect
\* timers their onclose handlers set.
MaxSockets == 3

ClientVarsUnchanged ==
  UNCHANGED <<now, ledgerVars, runVars, apiVars, srvVars, plannerVars,
              historyVars, threadVars, concVars, subVars, discVars>>

\* connectWebSocket(): nothing when this.ws is OPEN; otherwise a new
\* WebSocket is created and this.ws set to it. The socket this.ws held
\* before is not closed.
connectWebSocket ==
  IF ws # 0 /\ connections[ws] = "OPEN"
  THEN UNCHANGED <<ws, connections>>
  ELSE /\ connections' = Append(connections, "CONNECTING")
       /\ ws' = Len(connections) + 1

\* WebSocket.close(): a socket that is connecting or open starts to close.
close(readyState) ==
  IF readyState \in {"CONNECTING", "OPEN"} THEN "CLOSING" ELSE readyState

\* The application calls connectWebSocket().
AppConnects ==
  /\ Len(connections) < MaxSockets
  /\ connectWebSocket
  /\ wanted' = TRUE
  /\ timers' = timers
  /\ ClientVarsUnchanged

\* The application calls disconnectWebSocket(): this.ws is closed and set
\* to null; its handlers stay attached.
AppDisconnects ==
  /\ IF ws # 0
     THEN /\ connections' = [connections EXCEPT ![ws] = close(@)]
          /\ ws' = 0
     ELSE UNCHANGED <<ws, connections>>
  /\ wanted' = FALSE
  /\ timers' = timers
  /\ ClientVarsUnchanged

\* The connection of socket c is established: onopen.
SocketOpens ==
  /\ \E c \in DOMAIN connections :
       /\ connections[c] = "CONNECTING"
       /\ connections' = [connections EXCEPT ![c] = "OPEN"]
  /\ UNCHANGED <<ws, timers, wanted>>
  /\ ClientVarsUnchanged

\* Socket c is closed (the closing handshake ended, the connection failed
\* or the server dropped it): onclose sets the reconnect timer.
SocketCloses ==
  /\ \E c \in DOMAIN connections :
       /\ connections[c] # "CLOSED"
       /\ connections' = [connections EXCEPT ![c] = "CLOSED"]
  /\ timers' = timers + 1
  /\ UNCHANGED <<ws, wanted>>
  /\ ClientVarsUnchanged

\* A reconnect timer fires: `() => this.connectWebSocket()`.
TimerFires ==
  /\ timers > 0
  /\ timers' = timers - 1
  /\ Len(connections) < MaxSockets
  /\ connectWebSocket
  /\ wanted' = wanted
  /\ ClientVarsUnchanged

NextClient ==
  \/ AppConnects
  \/ AppDisconnects
  \/ SocketOpens
  \/ SocketCloses
  \/ TimerFires

SpecClient == Init /\ [][NextClient]_vars

\* ------------------------------------------------------------- claims
Range(seq) == {seq[k] : k \in DOMAIN seq}

Returned == pc \in {"returned", "done"} /\ result # <<>>

\* Step k was attempted and failed, and is a required step.
FailedRequired(k) ==
  k \in DOMAIN results /\ ~results[k].success /\ plan.steps[k].required

\* Step k was attempted and failed, and is an optional step.
FailedOptional(k) ==
  k \in DOMAIN results /\ ~results[k].success /\ ~plan.steps[k].required

StartedSteps ==
  {e.index : e \in {x \in Range(emitted) : x.type = "stepStart"}}
  \cup
  {e.stepIndex : e \in {x \in Range(wire) : x.event = "pipeline:step:started"}}

RECURSIVE SumOfCosts(_)
SumOfCosts(rs) ==
  IF rs = <<>> THEN 0
  ELSE (IF Head(rs).success THEN Head(rs).cost ELSE 0) + SumOfCosts(Tail(rs))

\* C1: once a required step has failed, no later step of the run is
\* started (no step-started callback or broadcast, no payment call) and
\* the run ends failed. Every step of the stand-alone server's plans is
\* a required one.
C1_AbortOnRequiredFailure ==
  /\ \A k \in DOMAIN results :
       FailedRequired(k) =>
         /\ \A n \in StartedSteps : n <= k
         /\ \A n \in Range(payCalls) : n <= k
         /\ Returned
         /\ ~result[1].success
         /\ pc = "done" => activePipelines[runCount].status = "failed"
  /\ \A e \in Range(wire) :
       (server = "standalone" /\ e.event = "pipeline:step:failed") =>
         /\ \A n \in StartedSteps : n <= e.stepIndex
         /\ \A n \in Range(payCalls) : n <= e.stepIndex
         /\ pc = "done"
         /\ wire[Len(wire)].event = "pipeline:failed"
         /\ pipelineHistory # <<>>
         /\ pipelineHistory[1].id = runCount
         /\ pipelineHistory[1].status = "failed"

\* A required step failed with steps of the plan still ahead of it, and
\* the run is over.
C1_Witness ==
  /\ pc = "done"
  /\ \E k \in DOMAIN results : FailedRequired(k) /\ k < Len(plan.steps)

\* In `log`, every start of step n > 1 comes after the completed or failed
\* event of step n - 1, and the starts are those of steps 1, 2, ... in order.
Sequential(log, IsStart(_), IsEnd(_), StepOf(_)) ==
  /\ \A p \in DOMAIN log :
       IsStart(log[p]) /\ StepOf(log[p]) > 1 =>
         \E q \in 1..(p - 1) :
           IsEnd(log[q]) /\ StepOf(log[q]) = StepOf(log[p]) - 1
  /\ LET starts == SelectSeq(log, IsStart)
     IN \A n \in DOMAIN starts : StepOf(starts[n]) = n

\* C2: steps run one at a time in plan order: step n + 1 is not started
\* before the completed or failed event of step n was emitted.
C2_Sequential ==
  LET cbStart(e) == e.type = "stepStart"
      cbEnd(e) == e.type \in {"stepComplete", "stepError"}
      cbStep(e) == e.index
      wsStart(e) == e.event = "pipeline:step:started"
      wsEnd(e) == e.event \in {"pipeline:step:completed", "pipeline:step:failed"}
      wsStep(e) == e.stepIndex
  IN /\ Sequential(emitted, cbStart, cbEnd, cbStep)
     /\ Sequential(wire, wsStart, wsEnd, wsStep)

\* The second step of a run was started after the first one succeeded.
C2_Witness ==
  /\ 2 \in StartedSteps
  /\ results # <<>>
  /\ results[1].success
  /\ \E e \in Range(wire) :
       e.event = "pipeline:step:started" /\ e.stepIndex = 2

\* C3: a failed optional step is recorded in its StepResult, the next step
\* (if any) is still started, the failure is not the run's top-level
\* error, and the run ends complete unless a required step fails.
C3_OptionalFailure ==
  /\ \A k \in DOMAIN results :
       FailedOptional(k) =>
         /\ results[k].stepId = k
         /\ results[k].error # NoError
         /\ k < Len(plan.steps) =>
              (pc = "step" /\ i = k + 1) \/ (k + 1) \in StartedSteps
         /\ (Returned /\ ~result[1].success) =>
              \E j \in DOMAIN results :
                /\ j > k
                /\ FailedRequired(j)
                /\ result[1].error = RequiredStepFailed(results[j].error)
  /\ (Returned /\ results # <<>> /\ \A j \in DOMAIN results : ~FailedRequired(j))
       => result[1].success

\* An optional step failed, the step after it was started, and the run
\* ended complete.
C3_Witness ==
  /\ pc = "done"
  /\ server = "api"
  /\ result[1].success
  /\ activePipelines[runCount].status = "complete"
  /\ \E k \in DOMAIN results :
       FailedOptional(k) /\ (k + 1) \in StartedSteps

\* C4: when canSpend refuses the plan's estimated total cost, the run ends
\* failed without starting a step, without a payment call and with the
\* ledger unchanged.
C4_FailFast ==
  /\ []((canAfford # <<>> /\ ~canAfford[1].allowed) =>
         /\ Returned
         /\ ~result[1].success
         /\ results = <<>>
         /\ StartedSteps = {}
         /\ payCalls = <<>>
         /\ pc = "done" => activePipelines[runCount].status = "failed")
  /\ [][(canAfford' # <<>> /\ ~canAfford'[1].allowed) =>
         orchSpending' = orchSpending]_vars
  /\ [][(pc = "plan" /\ canAfford' # <<>>) =>
         canAfford'[1] = canSpend(orchSpending, plan'.estimatedTotalCost, now)]_vars

\* A second run whose estimate is within both ceilings on its own is
\* refused because of what the first run spent today.
C4_Witness ==
  /\ pc = "done"
  /\ runCount = 2
  /\ canAfford # <<>>
  /\ ~canAfford[1].allowed
  /\ canAfford[1].reason = ReasonPerDay
  /\ plan.estimatedTotalCost <= orchSpending.maxPerDay
  /\ getTodaySpent(orchSpending, now) > 0

\* The run ended because the payment of required step i failed.
RequiredPaymentFailed ==
  /\ Returned
  /\ payment # <<>>
  /\ ~payment[1].success
  /\ i \in DOMAIN plan.steps
  /\ plan.steps[i].required

C6_PartialSpendReported ==
  (Returned /\ ~result[1].success /\ results # <<>>) =>
    /\ result[1].stepResults = results
    /\ result[1].totalCost = SumOfCosts(results)

\* C7: a run that reached a terminal state has exactly one entry in the
\* History Log.
C7_OneHistoryEntry ==
  pc = "done" =>
    IF server = "api"
    THEN Cardinality({k \in DOMAIN memory : memory[k] = runCount}) = 1
    ELSE Cardinality({k \in DOMAIN pipelineHistory :
                        pipelineHistory[k].id = runCount}) = 1

TerminalEvents == {"pipeline:completed", "pipeline:failed"}

\* The finished run ended complete.
RunSucceeded ==
  IF server = "api"
  THEN result[1].success
  ELSE pipelineHistory[1].status = "success"

\* C8: a finished run has broadcast exactly one terminal event, after all
\* its step events: pipeline:completed if and only if it ended complete,
\* pipeline:failed if and only if it ended failed.
C8_TerminalEvent ==
  pc = "done" =>
    /\ Cardinality({k \in DOMAIN wire : wire[k].event \in TerminalEvents}) = 1
    /\ wire[Len(wire)].event =
         (IF RunSucceeded THEN "pipeline:completed" ELSE "pipeline:failed")

\* Amounts a caller may ask canSpend about.
AskAmounts == 0..(MaxRecorded + 1)

\* C9: after any sequence of recordPayment and setLimits calls (and of the
\* other tracker operations), canSpend(amount) is refused whenever
\* getTodaySpent() + amount > maxPerDay.
C9_DailyCeiling ==
  \A amount \in AskAmounts :
    getTodaySpent(spending, now) + amount > spending.maxPerDay
      => ~canSpend(spending, amount, now).allowed

\* A payment was recorded today and an amount within the per-task ceiling
\* is refused by the per-day ceiling alone.
C9_Witness ==
  /\ getTodaySpent(spending, now) > 0
  /\ \E amount \in AskAmounts :
       /\ amount <= spending.maxPerTask
       /\ amount <= spending.maxPerDay
       /\ getTodaySpent(spending, now) + amount > spending.maxPerDay
       /\ ~canSpend(spending, amount, now).allowed

HeuristicTier == planCall # <<>> /\ planCall[1].ai.kind # "answer"

\* In the pattern, keyword and cheapest-service tiers the plan is within
\* the requested budget and step count.
HeuristicTiersWithinLimits ==
  (HeuristicTier /\ planReturn # <<>>) =>
    /\ SumCosts(planReturn[1].steps) <= RequestedMaxBudget(planCall[1])
    /\ Len(planReturn[1].steps) <= RequestedMaxSteps(planCall[1])

\* C11: the estimated costs of the steps of every plan createPlan returns
\* sum to at most the requested maxBudget, in every tier.
C11_PlanWithinBudget ==
  planReturn # <<>> =>
    SumCosts(planReturn[1].steps) <= RequestedMaxBudget(planCall[1])

\* C12: every plan createPlan returns has at most maxSteps steps, in every
\* tier.
C12_PlanWithinMaxSteps ==
  planReturn # <<>> =>
    Len(planReturn[1].steps) <= RequestedMaxSteps(planCall[1])

\* h holds the `n` latest of `count` numbered entries, newest first.
LatestFirst(h, count, n) ==
  /\ Len(h) = n
  /\ \A k \in DOMAIN h : h[k].id = count - k + 1

\* C13: the History Log never holds more than its capacity: it holds the
\* latest entries, newest first, and once more than the capacity were
\* added a read returns exactly the capacity and the oldest entry is gone.
C13_HistoryBounded ==
  /\ Len(pipelineHistory) <= MAX_HISTORY
  /\ LatestFirst(pipelineHistory, inserted, Min(inserted, MAX_HISTORY))
  /\ inserted > MAX_HISTORY =>
       /\ Len(pipelineHistory) = MAX_HISTORY
       /\ \A k \in DOMAIN pipelineHistory : pipelineHistory[k].id # 1
  /\ historyRead # <<>> =>
       /\ Len(historyRead[1]) <= MAX_HISTORY
       /\ \E count \in 0..inserted :
            LatestFirst(historyRead[1], count, Min(count, MAX_HISTORY))

\* More entries than the capacity were added and the log was read.
C13_Witness ==
  /\ inserted > MAX_HISTORY
  /\ historyRead = <<pipelineHistory>>
  /\ Len(historyRead[1]) = MAX_HISTORY
  /\ historyRead[1][1].id = inserted

\* The string pieces of a value, in reading order.
RECURSIVE Pieces(_)
RECURSIVE PiecesOfItems(_, _)
PiecesOfItems(items, isObject) ==
  IF items = <<>> THEN <<>>
  ELSE Pieces(IF isObject THEN Head(items).value ELSE Head(items))
       \o PiecesOfItems(Tail(items), isObject)

Pieces(v) ==
  CASE v.kind = "string" -> v.parts
    [] v.kind = "array" -> PiecesOfItems(v.items, FALSE)
    [] v.kind = "object" -> PiecesOfItems(v.items, TRUE)
    [] OTHER -> <<>>

\* Every {{lastResult}} of template t stands in body b as the text `text`.
LastResultReplaced(t, b, text) ==
  /\ Len(Pieces(b)) = Len(Pieces(t))
  /\ \A k \in DOMAIN Pieces(t) :
       Pieces(t)[k] = Placeholder("lastResult") =>
         Pieces(b)[k] = PlainText(text)

\* C14: when a step succeeded with payload d, every {{lastResult}} in the
\* request template of the next executed step is replaced, in the body
\* handed to the Payment Provider, by JSON.stringify(d).
C14_LastResultThreaded ==
  [][(lastOutput # <<>> /\ i' = i + 1) =>
       LastResultReplaced(template'[1], requestData'[1],
                          JSONstringify(lastOutput[1]))]_vars

\* The same for the payloads that are truthy in JavaScript.
TruthyLastResultThreaded ==
  [][(lastOutput # <<>> /\ Truthy(lastOutput[1]) /\ i' = i + 1) =>
       LastResultReplaced(template'[1], requestData'[1],
                          JSONstringify(lastOutput[1]))]_vars

\* C15: with several runs in flight, every lifecycle event of a run is
\* broadcast, and broadcast with the pipeline id of the run it belongs to.
C15_EventsTaggedWithOriginator ==
  \A e \in lifecycle :
    e.delivered /\ e.pipelineId = runs[e.run].pipelineId

\* The pipeline id of run r is the id of no other run.
OwnId(r) ==
  \A q \in DOMAIN runs : q # r => runs[q].pipelineId # runs[r].pipelineId

\* The status recorded for run r lists steps of r's plan only, each in a
\* state r's own progress has reached, and its cost is a cost of r's steps.
DescribesOnly(status, run) ==
  /\ Len(status.steps) \in {0, Len(run.plan.steps)}
  /\ \A k \in DOMAIN status.steps :
       /\ status.steps[k].status = "running" => k = run.i
       /\ status.steps[k].status = "complete" =>
            k \in DOMAIN run.results /\ run.results[k].success
       /\ status.steps[k].status = "failed" =>
            k \in DOMAIN run.results /\ ~run.results[k].success
  /\ status.totalCostSTX <= run.plan.estimatedTotalCost

\* C16: the status returned by GET /api/pipeline/X describes run X only,
\* also while other runs start, progress or finish.
C16_StatusOfOwnRun ==
  \A r \in DOMAIN runs :
    OwnId(r) => DescribesOnly(activePipelines[runs[r].pipelineId], runs[r])

\* planning < running < complete, failed.
StatusRank(status) ==
  CASE status = "planning" -> 0
    [] status = "running" -> 1
    [] OTHER -> 2

\* C17: the lifecycle state recorded for a pipeline id only moves forward,
\* and a complete or failed state never changes again.
C17_StatusMovesForward ==
  [][\A id \in DOMAIN activePipelines :
       LET old == activePipelines[id].status
           new == activePipelines'[id].status
       IN /\ StatusRank(old) <= StatusRank(new)
          /\ StatusRank(old) = 2 => new = old]_vars

\* The same for the pipeline ids that one request only was given.
StatusMovesForwardOwnId ==
  [][\A r \in DOMAIN runs :
       OwnId(r)' =>
         LET old == activePipelines[runs[r].pipelineId].status
             new == activePipelines'[runs[r].pipelineId].status
         IN /\ StatusRank(old) <= StatusRank(new)
            /\ StatusRank(old) = 2 => new = old]_vars

\* C19: canSpend and the later recordPayment calls of a run are not one
\* atomic step. A run records each payment that succeeded on the strength
\* of the answer canSpend gave when its plan was made, whatever other runs
\* have recorded since: today's spend grows by the amount paid.
C19_CheckThenRecordNotAtomic ==
  [][\A r \in DOMAIN runs :
       runs'[r].totalSpent > runs[r].totalSpent =>
         /\ runs[r].canAfford[1].allowed
         /\ getTodaySpent(orchSpending', now)
              = getTodaySpent(orchSpending, now)
                + (runs'[r].totalSpent - runs[r].totalSpent)]_vars

\* Two runs in flight both passed the pre-execution check, both paid, and
\* today's spend is above the per-day ceiling.
C19_Witness ==
  /\ Len(runs) = 2
  /\ \A r \in DOMAIN runs :
       /\ runs[r].canAfford # <<>>
       /\ runs[r].canAfford[1].allowed
       /\ runs[r].totalSpent > 0
  /\ getTodaySpent(orchSpending, now) > orchSpending.maxPerDay

\* The lifecycle events among the messages sent on a socket.
LifecycleOnly(messages) ==
  LET isEvent(m) == m.type \in LifecycleEvents IN SelectSeq(messages, isEvent)

\* C18: the lifecycle events a subscriber receives are exactly the events
\* broadcast between its joining and its ceasing to be open, in emission
\* order: nothing earlier is replayed and nothing later arrives.
C18_SubscriberDelivery ==
  \A c \in Connections :
    LET socket == sockets[c] IN
    socket.readyState # "CONNECTING" =>
      LifecycleOnly(socket.received) =
        SubSeq(broadcasts, socket.joined + 1,
               IF socket.left = -1 THEN Len(broadcasts) ELSE socket.left)

\* A subscriber joined after an event, received one, left, and an event
\* was broadcast after that.
C18_Witness ==
  \E c \in Connections :
    /\ sockets[c].joined > 0
    /\ sockets[c].left > sockets[c].joined
    /\ Len(broadcasts) > sockets[c].left
    /\ Len(LifecycleOnly(sockets[c].received)) = 1

\* The payload carries the service's own success flag, set to false.
ReportsFailure(v) ==
  /\ v.kind = "object"
  /\ \E k \in DOMAIN v.items :
       v.items[k].key = "success" /\ v.items[k].value = JBoolean("false")

\* C20: a step whose payment succeeded but whose payload reports failure
\* is a failed step: its result is a failure, its payload is not stored in
\* the context variables, and a required step aborts the run.
C20_ServiceFailureIsFailure ==
  [][(i' = i + 1 /\ payment'[1].success /\ ReportsFailure(payment'[1].data)) =>
       /\ ~results'[Len(results')].success
       /\ variables' = variables
       /\ plan'.steps[i'].required => pc' = "returned"]_vars

\* The step is a recordPayment call in an asset other than STX.
RecordsOtherAsset ==
  /\ Len(spending'.records) = Len(spending.records) + 1
  /\ SubSeq(spending'.records, 1, Len(spending.records)) = spending.records
  /\ spending'.records[Len(spending'.records)].asset # "STX"
  /\ spending'.records[Len(spending'.records)].day = now
  /\ spending'.maxPerTask = spending.maxPerTask
  /\ spending'.maxPerDay = spending.maxPerDay
  /\ now' = now

\* C21: recording a payment in an asset other than STX adds one to both
\* transaction counts and leaves getTodaySpent(), today's total, the
\* all-time total, remainingToday and every canSpend answer unchanged.
C21_OtherAssetsNotCounted ==
  [][RecordsOtherAsset =>
       LET old == getSummary(spending, now)
           new == getSummary(spending', now)
       IN /\ new.today.transactions = old.today.transactions + 1
          /\ new.allTime.transactions = old.allTime.transactions + 1
          /\ getTodaySpent(spending', now) = getTodaySpent(spending, now)
          /\ new.today.total = old.today.total
          /\ new.allTime.total = old.allTime.total
          /\ new.limits.remainingToday = old.limits.remainingToday
          /\ \A amount \in AskAmounts :
               canSpend(spending', amount, now) = canSpend(spending, amount, now)]_vars

\* The latest record is a payment of today in another asset, made after an
\* STX payment of today that left less than the recorded amount to spend.
C21_Witness ==
  /\ Len(spending.records) >= 2
  /\ LET last == spending.records[Len(spending.records)]
     IN /\ last.asset # "STX"
        /\ last.day = now
        /\ last.amount > getSummary(spending, now).limits.remainingToday
  /\ getTodaySpent(spending, now) > 0

\* The run of plan steps with their data ended complete.
DataRunComplete == result # <<>> /\ result[1].success /\ "outputTemplate" \in DOMAIN plan

\* The results that succeeded, whatever their payload.
Succeeded(stepResults) ==
  LET ok(r) == r.success IN SelectSeq(stepResults, ok)

\* C22: for a run that ends complete, the final output is the interpolated
\* output template when the plan has one; otherwise the payload of the last
\* step that succeeded with a payload; otherwise null.
C22_FinalOutput ==
  DataRunComplete =>
    LET r == result[1]
        good == Succeeded(r.stepResults)
    IN r.finalOutput =
         IF plan.outputTemplate # JUndefined
         THEN interpolateVariables(plan.outputTemplate, variables)
         ELSE IF good # <<>> THEN good[Len(good)].data ELSE JNull

\* The same with "a payload" read as a payload that is truthy in JavaScript.
FinalOutputOfTruthyPayloads ==
  DataRunComplete =>
    LET r == result[1]
        ok(x) == x.success /\ Truthy(x.data)
        good == SelectSeq(r.stepResults, ok)
    IN r.finalOutput =
         IF plan.outputTemplate # JUndefined
         THEN interpolateVariables(plan.outputTemplate, variables)
         ELSE IF good # <<>> THEN good[Len(good)].data ELSE JNull

\* The price of the service step k of the plan is bound to.
PricePaid(k) ==
  (CHOOSE s \in FindService(allServices, plan.steps[k].serviceId) : TRUE).amount

RECURSIVE SumPricesPaid(_)
SumPricesPaid(ks) ==
  IF ks = {} THEN 0
  ELSE LET k == CHOOSE x \in ks : TRUE
       IN PricePaid(k) + SumPricesPaid(ks \ {k})

\* C23: for every run that ends complete, totalCost is the sum of the
\* prices paid for its successful steps, and the result holds exactly one
\* StepResult per plan step, in plan order.
C23_CompleteRunTotals ==
  (server = "api" /\ Returned /\ result[1].success) =>
    LET r == result[1]
        paid == {k \in DOMAIN r.stepResults : r.stepResults[k].success}
    IN /\ Len(r.stepResults) = Len(plan.steps)
       /\ \A k \in DOMAIN r.stepResults : r.stepResults[k].stepId = k
       /\ r.totalCost = SumPricesPaid(paid)
       /\ paid \subseteq Range(payCalls)

\* A complete run of two steps on services of different prices, one step
\* paid and the other an optional step that failed.
C23_Witness ==
  /\ server = "api"
  /\ Returned
  /\ result[1].success
  /\ Len(plan.steps) = 2
  /\ \E k \in 1..2 : ~result[1].stepResults[k].success
  /\ result[1].totalCost > 0

\* The detector order of createHeuristicPlan's taskPatterns: data
\* gathering (news, market, blockchain), processing (ai), output
\* (generation); any other category comes after them.
CategoryRank(category) ==
  CASE category = "news" -> 1
    [] category = "market" -> 2
    [] category = "blockchain" -> 3
    [] category = "ai" -> 4
    [] category = "generation" -> 5
    [] OTHER -> 6

\* The categories of the services a plan's steps name, in step order.
StepCategories(p) ==
  [k \in DOMAIN p.steps |-> ServiceInfo(p.steps[k].serviceId).category]

InDetectorOrder(categories) ==
  \A j, k \in DOMAIN categories :
     j < k => CategoryRank(categories[j]) < CategoryRank(categories[k])

\* The categories a query mentions.
MentionedCategories(query) == {taskPatterns[k].category : k \in query.matches}

\* createPlan returned a plan of the pattern-based heuristic tier.
PatternPlanReturned ==
  /\ planCall # <<>>
  /\ planCall[1].ai.kind # "answer"
  /\ planCall[1].query.matches # {}
  /\ planReturn[1] # NoPlan

\* The call is against the whole fallback list with no options, and its
\* query mentions news and a tweet.
NewsAndTweetCall ==
  /\ planCall[1].services = getFallbackServices
  /\ planCall[1].maxSteps = <<>>
  /\ planCall[1].maxBudget = <<>>
  /\ {3, 10} \subseteq planCall[1].query.matches

\* C24: the steps of a pattern-based plan name services whose
\* categories follow the detector order, at most one step per category;
\* against the fallback list a query that mentions news and a tweet gets 2
\* or 3 steps, the news service before the generation service.
C24_DetectorOrder ==
  PatternPlanReturned =>
    LET categories == StepCategories(planReturn[1])
    IN /\ InDetectorOrder(categories)
       /\ NewsAndTweetCall =>
            /\ Len(categories) \in 2..3
            /\ \E j, k \in DOMAIN categories :
                  j < k /\ categories[j] = "news" /\ categories[k] = "generation"

\* What holds of the code where C24 fails: a pattern-based plan has at most one step per category
\* the query mentions and at most maxSteps steps; against the fallback list
\* the steps' services follow the detector order, one per category, and a
\* query that mentions news and a tweet gets one step per category it
\* mentions (2 when it mentions no other, 3 with one more, and so on), the
\* news service first and the generation service last.
OneStepPerMentionedCategory ==
  PatternPlanReturned =>
    LET call == planCall[1]
        categories == StepCategories(planReturn[1])
        mentioned == MentionedCategories(call.query)
    IN /\ Len(categories) <= Cardinality(mentioned)
       /\ Len(categories) <= RequestedMaxSteps(call)
       /\ call.services = getFallbackServices => InDetectorOrder(categories)
       /\ NewsAndTweetCall =>
            /\ Len(categories) = Cardinality(mentioned)
            /\ {categories[k] : k \in DOMAIN categories} = mentioned
            /\ categories[1] = "news"
            /\ categories[Len(categories)] = "generation"

\* Scenario of C24: "Summarize today's news and tweet it" against the fallback
\* list was planned as a news, a summarizing and a tweet step.
ScenarioBPlanned ==
  /\ PatternPlanReturned
  /\ NewsAndTweetCall
  /\ planCall[1].query.matches = {3, 7, 10}
  /\ StepCategories(planReturn[1]) = <<"news", "ai", "generation">>

\* The STX amounts of the ledger's records dated today or later, summed.
RECURSIVE SpentSTXSince(_, _)
SpentSTXSince(records, today) ==
  IF records = <<>> THEN 0
  ELSE (IF Head(records).asset = "STX" /\ Head(records).day >= today
        THEN Head(records).amount ELSE 0)
       + SpentSTXSince(Tail(records), today)

\* C25: getSummary().limits.remainingToday is never negative: it is
\* maxPerDay less today's spend when that is positive and zero otherwise,
\* also once setLimits has put the ceiling below what was spent.
C25_RemainingTodayNotNegative ==
  LET remaining == getSummary(spending, now).limits.remainingToday
      left == spending.maxPerDay - SpentSTXSince(spending.records, now)
  IN /\ remaining >= 0
     /\ remaining = IF left > 0 THEN left ELSE 0

\* C25 witness: the ceiling is below what was spent today and the summary
\* reports nothing remaining.
C25_Witness ==
  /\ spending.maxPerDay < SpentSTXSince(spending.records, now)
  /\ SpentSTXSince(spending.records, now) > 0
  /\ getSummary(spending, now).limits.remainingToday = 0

\* C26: when the registry fails, getAllServices returns the fallback list,
\* which is not empty, and leaves the cache as it was.
C26_RegistryFailureFallsBack ==
  [][(discovered' # <<>> /\ discovered'[1].asked
        /\ RegistryFailed(discovered'[1].answer))
       => /\ discovered'[1].services = getFallbackServices
          /\ Len(discovered'[1].services) > 0
          /\ cache' = cache]_vars

\* C26 witness: the registry failed while the cache held an expired entry;
\* the fallback list was returned and the entry is still there.
C26_Witness ==
  /\ discovered # <<>>
  /\ discovered[1].asked
  /\ RegistryFailed(discovered[1].answer)
  /\ cache # <<>>
  /\ cache[1].services # <<>>
  /\ discovered[1].services = getFallbackServices

\* C27: executePipeline never throws and always returns a PipelineResult:
\* a run under way can always go on, and a run that is over has returned a
\* result. A step that failed (unknown service, failed payment, payment
\* call that threw) has a failed StepResult in the context, and when it
\* is a required step the run has returned a failed PipelineResult.
C27_AlwaysReturnsAResult ==
  server = "api" =>
    /\ pc = "discover" => ENABLED Discovered
    /\ pc = "plan" => ENABLED Planned
    /\ pc = "step" => ENABLED StepStart
    /\ pc = "pay" => ENABLED PaymentReturns
    /\ pc = "compile" => ENABLED Compile
    /\ pc \notin {"idle", "discover", "plan", "step", "pay", "compile"} =>
         /\ result # <<>>
         /\ result[1].success \in BOOLEAN
    /\ \A k \in StartedSteps :
         (k < i \/ pc \notin {"step", "pay"}) => k \in DOMAIN results
    /\ \A k \in DOMAIN results :
         ~results[k].success =>
           /\ results[k].stepId = k
           /\ results[k].error # NoError
           /\ plan.steps[k].required =>
                /\ Returned
                /\ ~result[1].success
                /\ result[1].error = RequiredStepFailed(results[k].error)

\* C27 witness: an optional step named an unknown service and the run went
\* on; the payment call of the next, required step threw, and the run
\* returned a failed result.
C27_Witness ==
  /\ server = "api"
  /\ Returned
  /\ Len(results) = 2
  /\ FailedOptional(1)
  /\ results[1].error = ServiceNotFound(plan.steps[1].serviceId)
  /\ FailedRequired(2)
  /\ \E t \in PaymentThrows : results[2].error = t.error
  /\ ~result[1].success

\* C28: executeTask called with maxBudget b never pays a service priced
\* above b: a service handed to the payment call costs at most b, so does
\* every payment made, and with no service priced within b no payment call
\* is made.
C28_NeverPaysAboveBudget ==
  (server = "standalone" /\ budget # <<>>) =>
    /\ selection # <<>> => selection[1].amount <= budget[1]
    /\ (\A s \in Catalog : s.amount > budget[1]) =>
         /\ payCalls = <<>>
         /\ totalCost = 0

\* What holds of the code where C28 fails: a maxBudget above zero is kept
\* to, and one of zero or none is replaced by config.maxSpendPerTask.
PositiveBudgetKept ==
  server = "standalone" =>
    LET maxBudget == IF budget # <<>> /\ budget[1] > 0
                     THEN budget[1] ELSE config.maxSpendPerTask
    IN /\ selection # <<>> => selection[1].amount <= maxBudget
       /\ (\A s \in Catalog : s.amount > maxBudget) => payCalls = <<>>

\* C29: no retries. Within one run the payment call is made at most once
\* for each plan step, and the Spend Ledger gains exactly one record with
\* each step whose payment succeeded and none otherwise.
C29_NoRetries ==
  [][server = "api" =>
       LET stepDone == Len(results') = Len(results) + 1
           gained == Len(orchSpending'.records) - Len(orchSpending.records)
       IN /\ \A j, k \in DOMAIN payCalls' : j # k => payCalls'[j] # payCalls'[k]
          /\ \A k \in DOMAIN results' :
               results'[k].success => k \in Range(payCalls')
          /\ gained = IF stepDone /\ results'[Len(results')].success
                      THEN 1 ELSE 0]_vars

\* C29 witness: a run paid for its first step and the payment of its
\* second step failed: two payment calls, one record.
C29_Witness ==
  /\ server = "api"
  /\ runCount = 1
  /\ Returned
  /\ payCalls = <<1, 2>>
  /\ Len(results) = 2
  /\ results[1].success
  /\ ~results[2].success
  /\ Len(orchSpending.records) = 1

\* The context variables written for step n hold payload d.
Stored(vs, n, d) ==
  /\ {"step" \o ToString(n), "lastResult"} \subseteq DOMAIN vs
  /\ vs["step" \o ToString(n)] = d
  /\ vs["lastResult"] = d

\* C30: after step N succeeds with payload d the context has
\* variables.stepN = d and variables.lastResult = d; a failed step leaves
\* every context variable as it was.
C30_ContextVariables ==
  [][i' = i + 1 =>
       LET r == results'[i + 1]
       IN IF r.success
          THEN Stored(variables', i + 1, r.data)
          ELSE variables' = variables]_vars

\* What holds of the code where C30 fails: a payload that is truthy in
\* JavaScript is stored, any other leaves the variables as they were, and
\* so does a failed step.
TruthyPayloadStored ==
  [][i' = i + 1 =>
       LET r == results'[i + 1]
       IN IF r.success /\ Truthy(r.data)
          THEN Stored(variables', i + 1, r.data)
          ELSE variables' = variables]_vars

\* In body b every placeholder of template t that vs does not hold stands
\* as it stood in t.
UnresolvedLeft(t, b, vs, names) ==
  /\ Len(Pieces(b)) = Len(Pieces(t))
  /\ \A k \in DOMAIN Pieces(t) :
       (Pieces(t)[k].placeholder /\ Pieces(t)[k].text \notin DOMAIN vs
          /\ Pieces(t)[k].text \in names) =>
         Pieces(b)[k] = Pieces(t)[k]

\* The placeholder names of the request templates.
PlaceholderNames ==
  UNION {{Pieces(t)[k].text : k \in {n \in DOMAIN Pieces(t) : Pieces(t)[n].placeholder}} :
           t \in Templates}

\* C31: interpolation replaces only the placeholders whose name is a
\* defined context variable: one with no such variable is left verbatim and
\* the step still goes to the payment call; with no variables defined the
\* body is the template unchanged.
C31_UnresolvedPlaceholdersLeft ==
  [][i' = i + 1 =>
       /\ UnresolvedLeft(template'[1], requestData'[1], variables, PlaceholderNames)
       /\ variables = <<>> => requestData'[1] = template'[1]
       /\ payment' # <<>>]_vars

\* What holds of the code where C31 fails: the placeholders named after no
\* context variable and after no member of Object.prototype are left
\* verbatim, and the step goes to the payment call.
UnresolvedOwnNamesLeft ==
  [][i' = i + 1 =>
       /\ UnresolvedLeft(template'[1], requestData'[1], variables,
                         PlaceholderNames \ ObjectPrototype)
       /\ payment' # <<>>]_vars

\* No service of the list has this id.
UnknownService(id) == \A s \in allServices : s.id # id

\* C32: a step whose serviceId is not in the service list fails with a
\* service-not-found error before any payment call and without a change of
\* the spend ledger; the run is aborted if the step is required and goes on
\* if it is optional.
C32_UnknownServiceFailsUnpaid ==
  [][(server = "api" /\ pc = "step" /\ UnknownService(plan.steps[i].serviceId)) =>
       /\ payCalls' = payCalls
       /\ orchSpending' = orchSpending
       /\ spending' = spending
       /\ results' = Append(results,
            [stepId |-> i, success |-> FALSE,
             error |-> ServiceNotFound(plan.steps[i].serviceId),
             data |-> NoData, cost |-> 0])
       /\ IF plan.steps[i].required
          THEN /\ pc' = "returned"
               /\ result' = <<FailureResult(RequiredStepFailed(
                                ServiceNotFound(plan.steps[i].serviceId)))>>
          ELSE /\ result' = result
               /\ i' = i + 1
               /\ pc' \in {"step", "compile"}]_vars

\* C32 witness: an optional first step named an unknown service, no payment
\* call was made for it, and the run went on to its second step, which
\* named an unknown service too, was required and ended the run.
C32_Witness ==
  /\ server = "api"
  /\ Returned
  /\ Len(results) = 2
  /\ \A k \in {1, 2} : results[k].error = ServiceNotFound(plan.steps[k].serviceId)
  /\ ~plan.steps[1].required
  /\ plan.steps[2].required
  /\ payCalls = <<>>
  /\ ~result[1].success

\* createPlan returned from its heuristic tiers.
HeuristicReturned == planCall # <<>> /\ planCall[1].ai.kind # "answer"

\* No two steps of the plan name the same service.
DistinctServiceIds(p) ==
  \A a, b \in DOMAIN p.steps : a # b => p.steps[a].serviceId # p.steps[b].serviceId

\* C33: no plan of the heuristic planner (pattern tier, keyword tier or
\* cheapest fallback) binds one service to two steps: the serviceIds of its
\* steps are pairwise distinct.
C33_StepsOfDistinctServices ==
  HeuristicReturned => DistinctServiceIds(planReturn[1])

\* C33 witness: the list holds one service, which scores above zero for
\* each of the first two tasks detected, there is room and budget for two
\* steps, and the plan has the one step.
C33_Witness ==
  /\ HeuristicReturned
  /\ LET call == planCall[1]
         tasks == DetectTasks(call.query, 1, <<>>)
     IN /\ Len(tasks) >= 2
        /\ RequestedMaxSteps(call) >= 2
        /\ Len(call.services) = 1
        /\ \A k \in {1, 2} : TaskScore(call.services[1], tasks[k], FALSE) > 0
        /\ 2 * call.services[1].amount <= RequestedMaxBudget(call)
        /\ Len(planReturn[1].steps) = 1

\* The heuristic tiers were called with a positive options.maxBudget.
PositiveBudgetCall ==
  /\ HeuristicReturned
  /\ planCall[1].maxBudget # <<>>
  /\ planCall[1].maxBudget[1] > 0

\* The positions of the list whose service costs at most maxBudget.
Affordable(call) ==
  {k \in DOMAIN call.services : call.services[k].amount <= call.maxBudget[1]}

\* C34: for a positive maxBudget the heuristic planner returns no plan if
\* and only if the catalog is empty or every service of it costs more than
\* maxBudget; when some service is affordable the plan has at least one
\* step.
C34_PlanIffAffordable ==
  PositiveBudgetCall =>
    /\ (planReturn[1] = NoPlan) <=> (Affordable(planCall[1]) = {})
    /\ Affordable(planCall[1]) # {} => Len(planReturn[1].steps) >= 1

\* C34 witness: a call with a positive budget on a list that is not empty
\* and whose services all cost more returned no plan.
C34_Witness ==
  /\ PositiveBudgetCall
  /\ planCall[1].services # <<>>
  /\ Affordable(planCall[1]) = {}
  /\ planReturn[1] = NoPlan

\* createPlan returned a plan from createKeywordBasedPlan: no client
\* answered and no task pattern matched the query.
KeywordPlanReturned ==
  /\ HeuristicReturned
  /\ planCall[1].query.matches = {}
  /\ planReturn[1] # NoPlan

\* The relevance score of the service of step k of the returned plan.
StepScore(k) ==
  KeywordScore([id |-> planReturn[1].steps[k].serviceId], planCall[1].query.words)

\* C35: in a plan of the keyword tier a service of relevance score zero
\* appears only as the plan's single step.
C35_ZeroScoreOnlyAlone ==
  KeywordPlanReturned =>
    \A k \in DOMAIN planReturn[1].steps :
      StepScore(k) = 0 => Len(planReturn[1].steps) = 1

\* C35 witness: the list held services of a score above zero and room for
\* more steps, all of them over the budget, and the plan is one step of a
\* service of score zero.
C35_Witness ==
  /\ KeywordPlanReturned
  /\ \E n \in DOMAIN planCall[1].services :
       KeywordScore(planCall[1].services[n], planCall[1].query.words) > 0
  /\ RequestedMaxSteps(planCall[1]) > 1
  /\ Len(planCall[1].services) > 2
  /\ Len(planReturn[1].steps) = 1
  /\ StepScore(1) = 0

\* The STX amount of the records of tracker t dated day d.
SpentSTXOn(t, d) ==
  LET keep(r) == r.day = d /\ r.asset = "STX"
  IN SumAmounts(SelectSeq(t.records, keep))

\* The amounts canSpend is asked about.
AskedAmounts == 1..5

\* C36: only the payments recorded since the start of the current day
\* count toward the per-day ceiling: when the day changes getTodaySpent() is
\* zero, and stays zero while no record is dated today, canSpend allows
\* again up to the full per-day ceiling, and the all-time total is
\* unchanged.
C36_DayChangeClearsTodaySpent ==
  [][/\ now' # now =>
          /\ getTodaySpent(spending', now') = 0
          /\ AllTimeTotal(spending') = AllTimeTotal(spending)
          /\ getSummary(spending', now').allTime = getSummary(spending, now).allTime
     /\ getTodaySpent(spending', now') = SpentSTXOn(spending', now')
     /\ SpentSTXOn(spending', now') = 0 =>
          \A amount \in AskedAmounts :
            canSpend(spending', amount, now').allowed
              <=> (amount <= spending'.maxPerTask /\ amount <= spending'.maxPerDay)
     /\ \A amount \in AskedAmounts :
          canSpend(spending', amount, now').allowed
            <=> /\ amount <= spending'.maxPerTask
                /\ SpentSTXOn(spending', now') + amount <= spending'.maxPerDay]_vars

\* C36 witness: the day changed with yesterday's STX payments at the
\* per-day ceiling, where canSpend denied every amount, and with no payment
\* yet today canSpend allows the whole ceiling.
C36_Witness ==
  /\ now = 1
  /\ SpentSTXOn(spending, 0) >= spending.maxPerDay
  /\ ~canSpend(spending, 1, 0).allowed
  /\ getTodaySpent(spending, now) = 0
  /\ AllTimeTotal(spending) = SpentSTXOn(spending, 0)
  /\ spending.maxPerDay <= spending.maxPerTask
  /\ canSpend(spending, spending.maxPerDay, now).allowed

\* C37: all payments of one agent go through one spend ledger: a payment
\* recorded by a step of executePipeline is in the agent's
\* getSpendingSummary() and counts toward the daily check of executeTask.
C37_OneLedgerPerAgent ==
  server = "api" =>
    /\ getSummary(spending, now).allTime.transactions >= Len(orchSpending.records)
    /\ getTodaySpent(spending, now) >= getTodaySpent(orchSpending, now)

\* What holds of the code where C37 fails: the payments of pipeline steps
\* are recorded in the orchestrator's own tracker, and the tracker that
\* getSpendingSummary() and executeTask read is left as it was.
PipelinePaymentsInOrchestratorLedger ==
  [][server = "api" =>
       /\ spending' = spending
       /\ payment' # <<>> /\ payment = <<>> /\ payment'[1].success =>
            Len(orchSpending'.records) = Len(orchSpending.records) + 1]_vars

\* C38: with runs of one orchestrator that do not overlap and ceilings that
\* are not lowered, today's recorded spend in its ledger never exceeds the
\* per-day ceiling, after any sequence of runs.
C38_SequentialRunsWithinDailyCeiling ==
  server = "api" =>
    SpentSTXSince(orchSpending.records, now) <= orchSpending.maxPerDay

\* C38 witness: an earlier run's payments took today's spend to the
\* per-day ceiling, and the pre-execution check of the next run refused its
\* plan for the per-day ceiling.
C38_Witness ==
  /\ server = "api"
  /\ runCount = 2
  /\ SpentSTXSince(orchSpending.records, now) = orchSpending.maxPerDay
  /\ canAfford # <<>>
  /\ ~canAfford[1].allowed
  /\ canAfford[1].reason = ReasonPerDay
  /\ Returned

\* C39: what a run records in the spend ledger never exceeds the
\* estimatedTotalCost of its plan, which passed the pre-execution check,
\* and so never exceeds the per-task ceiling of that check.
C39_RunRecordsWithinEstimate ==
  [][server = "api" =>
       /\ orchSpending' # orchSpending =>
            /\ SumAmounts(orchSpending'.records) - SumAmounts(orchSpending.records)
                 = totalSpent' - totalSpent
            /\ canAfford # <<>>
            /\ canAfford[1].allowed
       /\ totalSpent' <= plan'.estimatedTotalCost
       /\ totalSpent' > 0 => plan'.estimatedTotalCost <= orchSpending'.maxPerTask]_vars

\* C39 witness: a run of two steps is over, its optional step failed and
\* the other was paid: the ledger holds less than the plan's estimate.
C39_Witness ==
  /\ server = "api"
  /\ Returned
  /\ Len(results) = 2
  /\ \E k \in {1, 2} : ~results[k].success /\ results[k].error # ServiceNotFound(plan.steps[k].serviceId)
  /\ totalSpent > 0
  /\ totalSpent = SumAmounts(orchSpending.records)
  /\ totalSpent < plan.estimatedTotalCost

\* The sockets that are open: each delivers the server's events to the
\* client's handlers through its onmessage.
Live == {c \in DOMAIN connections : connections[c] = "OPEN"}

\* C40: after disconnectWebSocket() the client stays disconnected: no new
\* WebSocket is opened until connectWebSocket() is called again, and at no
\* time does the client hold more than one live connection delivering
\* events to its handlers.
C40_StaysDisconnected ==
  [][/\ (~wanted /\ ~wanted') => Len(connections') = Len(connections)
     /\ Cardinality(Live') <= 1]_vars

\* What holds of the code where C40 fails: a WebSocket is created by a
\* call of the application or by a reconnect timer, and only while this.ws
\* is not an open socket.
SocketsCreatedWhileNotOpen ==
  [][Len(connections') # Len(connections) =>
       /\ ws = 0 \/ connections[ws] # "OPEN"
       /\ (wanted' /\ timers' = timers) \/ timers' = timers - 1
       /\ ws' = Len(connections')]_vars
====
